---- MODULE Spec2Model ----
(***************************************************************************)
(* A model of mwlib's macro brace parser (mwlib/templ/parser.py) and of    *)
(* the driver of the structural refinement pipeline (mwlib/refine/core.py).*)
(*                                                                         *)
(* Text is a sequence of one-character strings.  A macro tree value is a   *)
(* record [k, s, c]: k is the Python type ("str", "eqmark", "list",        *)
(* "tuple", "Node", "Template", "Variable", "IfNode", "SwitchNode",        *)
(* "Magic"), s the text of a string, c the children of a container.        *)
(***************************************************************************)
EXTENDS Integers, Sequences, FiniteSets, TLC

VARIABLES
    tokens,     \* Parser.tokens: the token list, the (None, '') sentinel last
    pos,        \* Parser.pos (1-based here)
    stack,      \* the active parse_open_brace calls, innermost last
    n,          \* the local n of Parser.parse
    pc,         \* where the call is: "parse", "done", "raised", "idle"
    result,     \* what Parser.parse returned
    siteinfo,   \* Parser.siteinfo["magicwords"]
    closes,     \* history: the closing runs handled, in order
    fnarg,      \* the argument of the function under study
    fnres,      \* what it returned
    fnpc,       \* "idle", "call", "ret", "ret2"
    parsers,    \* CombinedParser.__call__: the local list parsers
    tree,       \* the token tree handed to CombinedParser.__call__
    applied,    \* history: the passes applied, in order
    given,      \* the token lists the last pass was called on
    cache,      \* Parser._cache, most recently used last
    calls,      \* history: the parse calls made so far
    xopts       \* the options objects (XBunch) that callers of parse_txt keep

macroVars == <<tokens, pos, stack, n, pc, result, siteinfo, closes>>
fnVars == <<fnarg, fnres, fnpc>>
pipeVars == <<parsers, tree, applied, given>>
cacheVars == <<cache, calls, xopts>>
vars == <<macroVars, fnVars, pipeVars, cacheVars>>

(***************************************************************************)
(* Text                                                                    *)
(***************************************************************************)
Max(S) == CHOOSE x \in S : \A y \in S : y <= x
Min(S) == CHOOSE x \in S : \A y \in S : x <= y

\* str.isspace, for the characters the model uses
IsWs(ch) == ch \in {" ", "\n"}

\* ch in s
Contains(s, ch) == \E i \in 1..Len(s) : s[i] = ch

\* s.startswith(p)
StartsWith(s, p) == Len(p) <= Len(s) /\ SubSeq(s, 1, Len(p)) = p

\* s.split(ch)[0]
BeforeFirst(s, ch) ==
    IF Contains(s, ch)
    THEN SubSeq(s, 1, Min({i \in 1..Len(s) : s[i] = ch}) - 1)
    ELSE s

\* s.split(ch, 1)[1], for s that holds ch
AfterFirst(s, ch) == SubSeq(s, Min({i \in 1..Len(s) : s[i] = ch}) + 1, Len(s))

\* s.strip()
Strip(s) ==
    LET keep == {i \in 1..Len(s) : ~IsWs(s[i])}
    IN IF keep = {} THEN <<>> ELSE SubSeq(s, Min(keep), Max(keep))

\* s.lower(), for the characters the model uses
LowerChar(ch) == CASE ch = "I" -> "i" [] ch = "F" -> "f" [] OTHER -> ch
Lower(s) == [i \in 1..Len(s) |-> LowerChar(s[i])]

\* ch * k
Repeat(ch, k) == [i \in 1..k |-> ch]

(***************************************************************************)
(* Macro tree values                                                       *)
(***************************************************************************)
Str(s) == [k |-> "str", s |-> s, c |-> <<>>]
\* marks.eqmark: an instance of a str subclass, the empty string as text
eqmark == [k |-> "eqmark", s |-> <<>>, c |-> <<>>]
List(c) == [k |-> "list", s |-> <<>>, c |-> c]
Tuple(c) == [k |-> "tuple", s |-> <<>>, c |-> c]
Mk(kind, c) == [k |-> kind, s |-> <<>>, c |-> c]

NodeKinds == {"Node", "Template", "Variable", "IfNode", "SwitchNode", "Magic"}
\* isinstance(x, six.string_types)
IsString(x) == x.k \in {"str", "eqmark"}
\* isinstance(x, Node)
IsNode(x) == x.k \in NodeKinds

T_pipe == Str(<<"|">>)
T_eq == Str(<<"=">>)
T_lopen == Str(<<"[", "[">>)
T_lclose == Str(<<"]", "]">>)

(***************************************************************************)
(* optimize (parser.py 45-80)                                              *)
(***************************************************************************)
RECURSIVE optimize(_)
RECURSIVE JoinTexts(_)
RECURSIVE CombineFrom(_, _, _, _)

\* "".join(tmp)
JoinTexts(tmp) == IF tmp = <<>> THEN <<>> ELSE Head(tmp) \o JoinTexts(Tail(tmp))

\* the loop of lines 59-70 from child i on: res and tmp as in the code
CombineFrom(seq, i, res, tmp) ==
    IF i > Len(seq)
    THEN IF tmp # <<>> THEN Append(res, Str(JoinTexts(tmp))) ELSE res
    ELSE IF IsString(seq[i]) /\ seq[i] # eqmark
         THEN CombineFrom(seq, i + 1, res, Append(tmp, seq[i].s))
         ELSE CombineFrom(seq, i + 1,
                          Append(IF tmp # <<>> THEN Append(res, Str(JoinTexts(tmp))) ELSE res,
                                 seq[i]),
                          <<>>)

\* (optimize(x) for x in node)
OptimizedChildren(node) == [i \in 1..Len(node.c) |-> optimize(node.c[i])]

\* a mutant of OnlyChild: the only child is returned as it is
OnlyChildRaw(children) == children[1]

\* lines 53 and 75: return optimize(node[0])
OnlyChild(children) == optimize(children[1])

optimize(node) ==
    IF node.k = "tuple" THEN Tuple(OptimizedChildren(node))
    ELSE IF IsString(node) THEN node
    ELSE IF Len(node.c) = 1 /\ node.k \in {"list", "Node"} THEN OnlyChild(node.c)
    ELSE IF IsNode(node) THEN Mk(node.k, OptimizedChildren(node))
    ELSE LET res == CombineFrom(OptimizedChildren(node), 1, <<>>, <<>>)
         IN IF Len(res) = 1 THEN OnlyChild(res) ELSE Tuple(res)

(***************************************************************************)
(* Parser.__init__ and AliasMap (parser.py 16-42, 87-110)                  *)
(* siteinfo["magicwords"] is a sequence of [name, aliases], names and      *)
(* aliases being texts.                                                    *)
(***************************************************************************)
W_if == <<"i", "f">>
W_switch == <<"s", "w", "i", "t", "c", "h">>

\* the alternatives of name2rx[name]: "^#if:" unless the siteinfo lists the magic
\* word, and then "^#(alias|alias|...):" of the last entry of that name
Name2Rx(si, name) ==
    LET idx == {i \in 1..Len(si) : si[i].name = name}
    IN IF idx = {} THEN {name}
       ELSE LET al == si[Max(idx)].aliases
            IN IF al = <<>> THEN {<<>>} ELSE {al[j] : j \in 1..Len(al)}

\* name2rx[name].match(text)
RxMatch(si, name, text) ==
    \E a \in Name2Rx(si, name) : StartsWith(text, <<"#">> \o a \o <<":">>)

\* the assignments AliasMap.__init__ makes to _map, in order (lines 21-28)
RECURSIVE AliasWrites(_, _, _)
AliasWrites(si, i, j) ==
    IF i > Len(si) THEN <<>>
    ELSE IF j > Len(si[i].aliases) THEN AliasWrites(si, i + 1, 1)
    ELSE <<[key |-> si[i].aliases[j], val |-> si[i].name],
           [key |-> <<"#">> \o si[i].aliases[j], val |-> <<"#">> \o si[i].name]>>
         \o AliasWrites(si, i, j + 1)

\* AliasMap._map.get(key); <<>> stands for None
AliasGet(si, key) ==
    LET w == AliasWrites(si, 1, 1)
        idx == {x \in 1..Len(w) : w[x].key = key}
    IN IF idx = {} THEN <<>> ELSE w[Max(idx)].val

\* AliasMap.resolve_magic_alias(name) or name
ResolveOrSelf(si, name) ==
    LET r == IF StartsWith(name, <<"#">>)
             THEN LET got == AliasGet(si, SubSeq(name, 2, Len(name)))
                  IN IF got # <<>> THEN <<"#">> \o got ELSE <<>>
             ELSE AliasGet(si, name)
    IN IF r # <<>> THEN r ELSE name

\* mwlib.templ.magic_nodes.registry: the names with a node class of their own
Registry == {<<"s", "u", "b", "s", "t">>}

(***************************************************************************)
(* Building nodes from the children of a closed brace run                  *)
(***************************************************************************)
\* x == "|" etc.: a str compares by its text, everything else is unequal
IsText(x, txt) == x.k = "str" /\ x.s = txt

\* variable_from_children (lines 118-129)
variable_from_children(children) ==
    LET idx == {i \in 1..Len(children) : children[i] = T_pipe}
    IN IF idx = {} THEN Mk("Variable", <<List(children)>>)
       ELSE Mk("Variable", <<List(SubSeq(children, 1, Min(idx) - 1)),
                              List(SubSeq(children, Min(idx) + 1, Len(children)))>>)

\* a mutant of strip_ws: nothing is trimmed
strip_ws_kept(cond) == cond

\* _strip_ws (lines 146-158)
strip_ws(cond) ==
    IF IsString(cond) THEN Str(Strip(cond.s))
    ELSE LET c0 == cond.c
             c1 == IF c0 # <<>> /\ IsString(c0[1]) /\ Strip(c0[1].s) = <<>>
                   THEN Tail(c0) ELSE c0
             c2 == IF c1 # <<>> /\ IsString(c1[Len(c1)]) /\ Strip(c1[Len(c1)].s) = <<>>
                   THEN SubSeq(c1, 1, Len(c1) - 1) ELSE c1
         IN Tuple(c2)

\* a mutant of ArgsLinkOpen: a [[ does not open a link
ArgsLinkOpenNever(child) == FALSE

\* _parse_args line 188: child == "[["
ArgsLinkOpen(child) == child = T_lopen

\* the loop of _parse_args (lines 187-201) from child i on
RECURSIVE ParseArgsFrom(_, _, _, _, _, _)
ParseArgsFrom(children, i, args, arg, linkcount, append_arg) ==
    IF i > Len(children)
    THEN IF append_arg \/ arg # <<>> THEN Append(args, arg) ELSE args
    ELSE LET child == children[i]
         IN IF ArgsLinkOpen(child)
            THEN ParseArgsFrom(children, i + 1, args, Append(arg, child),
                               linkcount + 1, append_arg)
            ELSE IF child = T_lclose
            THEN ParseArgsFrom(children, i + 1, args, Append(arg, child),
                               IF linkcount # 0 THEN linkcount - 1 ELSE linkcount,
                               append_arg)
            ELSE IF child = T_pipe /\ linkcount = 0
            THEN ParseArgsFrom(children, i + 1, Append(args, arg), <<>>, linkcount, TRUE)
            ELSE IF child = T_eq /\ linkcount = 0
            THEN ParseArgsFrom(children, i + 1, args, Append(arg, eqmark),
                               linkcount, append_arg)
            ELSE ParseArgsFrom(children, i + 1, args, Append(arg, child),
                               linkcount, append_arg)

\* _parse_args (lines 182-206): a sequence of optimized arguments
parse_args(children, append_arg) ==
    LET args == ParseArgsFrom(children, 1, <<>>, <<>>, 0, append_arg)
    IN [i \in 1..Len(args) |-> optimize(List(args[i]))]

\* children[0] = children[0].split(":", 1)[1]
DropPrefix(children) ==
    [children EXCEPT ![1] = Str(AfterFirst(children[1].s, ":"))]

\* switch_node_from_children (lines 160-165)
switch_node_from_children(children) ==
    LET args == parse_args(DropPrefix(children), FALSE)
        value == strip_ws(optimize(args[1]))
    IN Mk("SwitchNode", <<value, Tuple(Tail(args))>>)

\* if_node_from_children (lines 167-175)
if_node_from_children(children) ==
    LET args == parse_args(DropPrefix(children), FALSE)
        cond == strip_ws(optimize(args[1]))
    IN Mk("IfNode", [args EXCEPT ![1] = cond])

\* magic_node_from_children (lines 177-180)
magic_node_from_children(children) ==
    Mk("Magic", parse_args(DropPrefix(children), FALSE))

\* a mutant of NameIsBad: the text after the first colon is looked at
NameIsBadAfterColon(child) ==
    LET part == IF Contains(child.s, ":") THEN AfterFirst(child.s, ":") ELSE child.s
    IN Contains(part, "[") \/ Contains(part, "]")

\* _is_good_name lines 218-223: the child, cut at its first colon, holds [ or ]
NameIsBad(child) ==
    LET part == BeforeFirst(child.s, ":")
    IN Contains(part, "[") \/ Contains(part, "]")

\* the loop of _is_good_name (lines 215-226) from child i on
RECURSIVE GoodNameFrom(_, _)
GoodNameFrom(node, i) ==
    IF i > Len(node) THEN TRUE
    ELSE IF ~IsString(node[i]) THEN GoodNameFrom(node, i + 1)
    ELSE IF NameIsBad(node[i]) THEN FALSE
    ELSE IF Contains(node[i].s, ":") THEN TRUE
    ELSE GoodNameFrom(node, i + 1)

\* _is_good_name (lines 208-226)
is_good_name(node) ==
    GoodNameFrom(IF IsString(node) THEN <<node>> ELSE node.c, 1)

\* template_from_children lines 250-254: the index of the | that ends the name,
\* 0 when no child is a |
NameEnd(children) ==
    LET idx == {i \in 1..Len(children) : children[i] = T_pipe}
    IN IF idx = {} THEN 0 ELSE Min(idx)

\* template_from_children (lines 228-265)
template_from_children(si, children) ==
    LET first == Lower(Strip(children[1].s))
        isText == children # <<>> /\ children[1].k = "str"
        e == NameEnd(children)
        nameChildren == IF e = 0 THEN children ELSE SubSeq(children, 1, e - 1)
        rest == IF e = 0 THEN <<>> ELSE SubSeq(children, e + 1, Len(children))
        name0 == optimize(List(nameChildren))
        name == IF IsString(name0) THEN Str(Strip(name0.s)) ELSE name0
    IN IF isText /\ RxMatch(si, W_if, first) THEN if_node_from_children(children)
       ELSE IF isText /\ RxMatch(si, W_switch, first) THEN switch_node_from_children(children)
       ELSE IF isText /\ Contains(first, ":")
               /\ ResolveOrSelf(si, BeforeFirst(first, ":")) \in Registry
            THEN magic_node_from_children(children)
       ELSE IF ~is_good_name(name)
            THEN Mk("Node", <<Str(<<"{", "{">>)>> \o children \o <<Str(<<"}", "}">>)>>)
       ELSE Mk("Template", <<name, Tuple(parse_args(rest, e # 0))>>)

(***************************************************************************)
(* Parser.parse and Parser.parse_open_brace (parser.py 267-347) as a       *)
(* machine.  A token is [type, txt]; the types are those of                *)
(* scanner.Symbols, "None" being the type of the sentinel.  A frame is one *)
(* active call of parse_open_brace: its n, numbraces and linkcount, and    *)
(* brk once its loop has been left.                                        *)
(***************************************************************************)
Tok(type, txt) == [type |-> type, txt |-> txt]
Sentinel == Tok("None", <<>>)

Machine(toks, si) ==
    [tokens |-> toks, pos |-> 1, stack |-> <<>>, n |-> <<>>, pc |-> "parse",
     result |-> Tuple(<<>>), siteinfo |-> si, closes |-> <<>>]

\* get_token
Cur(m) == m.tokens[m.pos]
Top(m) == m.stack[Len(m.stack)]
InLoop(m) == m.pc = "parse" /\ (IF m.stack = <<>> THEN TRUE ELSE ~Top(m).brk)
InBrace(m) == m.pc = "parse" /\ m.stack # <<>> /\ ~Top(m).brk

\* a mutant of consume_closing_braces: the whole run is dropped
consume_closing_bracesAll(toks, ps, num) ==
    [tokens |-> toks, pos |-> ps + 1,
     raised |-> toks[ps].type # "bra_close" \/ Len(toks[ps].txt) < num]

\* _consume_closing_braces (lines 131-144)
consume_closing_braces(toks, ps, num) ==
    LET t == toks[ps]
        newlen == Len(t.txt) - num
    IN IF t.type # "bra_close" \/ Len(t.txt) < num
       THEN [tokens |-> toks, pos |-> ps, raised |-> TRUE]
       ELSE IF newlen = 0
       THEN [tokens |-> toks, pos |-> ps + 1, raised |-> FALSE]
       ELSE [tokens |-> [toks EXCEPT ![ps] =
                            Tok(IF newlen = 1 THEN "txt" ELSE t.type,
                                SubSeq(t.txt, 1, newlen))],
             pos |-> ps, raised |-> FALSE]

\* lines 279-280 and 332-333, with 268-274: parse_open_brace is entered
StepCall(m) ==
    [m EXCEPT !.stack = Append(@, [n |-> <<>>, numbraces |-> Len(Cur(m).txt),
                                   linkcount |-> 0, brk |-> FALSE]),
              !.pos = @ + 1]

\* lines 334-335 and 342-347: parse leaves its loop and returns
StepFinish(m) == [m EXCEPT !.result = optimize(List(m.n)), !.pc = "done"]

\* lines 300-301 and 336-337
StepNoi(m) == [m EXCEPT !.pos = @ + 1]

\* lines 338-340: bra_close, link, txt at the top level
StepParseText(m) == [m EXCEPT !.n = Append(@, Str(Cur(m).txt)), !.pos = @ + 1]

\* lines 281-282
StepBraceEnd(m) == [m EXCEPT !.stack[Len(m.stack)].brk = TRUE]

\* a mutant of CloseAsTemplate: only the length of the closing run decides
CloseAsTemplateByRun(closelen, numbraces) == closelen = 2

\* line 285
CloseAsTemplate(closelen, numbraces) == closelen = 2 \/ numbraces = 2

\* lines 283-299
StepBraceClose(m) ==
    LET f == Top(m)
        closelen == Len(Cur(m).txt)
        tmpl == CloseAsTemplate(closelen, f.numbraces)
        num == IF tmpl THEN 2 ELSE 3
        node == IF tmpl THEN template_from_children(m.siteinfo, f.n)
                ELSE variable_from_children(f.n)
        got == consume_closing_braces(m.tokens, m.pos, num)
        left == f.numbraces - num
    IN IF got.raised THEN [m EXCEPT !.pc = "raised"]
       ELSE [m EXCEPT !.tokens = got.tokens, !.pos = got.pos,
                      !.stack[Len(m.stack)] =
                          [n |-> <<node>>, numbraces |-> left,
                           linkcount |-> f.linkcount, brk |-> left < 2],
                      !.closes = Append(@, [closelen |-> closelen,
                                            numbraces |-> f.numbraces,
                                            num |-> num])]

\* lines 302-309: link, txt, and a closing run inside [[ ]]
StepBraceText(m) ==
    LET f == Top(m)
        txt == Cur(m).txt
        lc == IF txt = <<"[", "[">> THEN f.linkcount + 1
              ELSE IF txt = <<"]", "]">> /\ f.linkcount > 0 THEN f.linkcount - 1
              ELSE f.linkcount
    IN [m EXCEPT !.stack[Len(m.stack)] = [f EXCEPT !.n = Append(@, Str(txt)),
                                                   !.linkcount = lc],
                 !.pos = @ + 1]

\* a mutant of Returned: the braces left unclosed are dropped
ReturnedBare(f) == f.n

\* lines 311-314: what parse_open_brace returns
Returned(f) ==
    IF f.numbraces # 0
    THEN <<Str(Repeat("{", f.numbraces))>> \o f.n
    ELSE f.n

\* the return of parse_open_brace and the n.append of its caller (280, 333)
StepReturn(m) ==
    LET val == List(Returned(Top(m)))
        d == Len(m.stack)
    IN IF d = 1
       THEN [m EXCEPT !.stack = <<>>, !.n = Append(@, val)]
       ELSE [m EXCEPT !.stack = [SubSeq(m.stack, 1, d - 1) EXCEPT ![d - 1].n = Append(@, val)]]

\* the guards of the branches
CanCall(m) == InLoop(m) /\ Cur(m).type = "bra_open"
CanFinish(m) == InLoop(m) /\ m.stack = <<>> /\ Cur(m).type = "None"
CanNoi(m) == InLoop(m) /\ Cur(m).type = "noi"
CanParseText(m) ==
    InLoop(m) /\ m.stack = <<>> /\ Cur(m).type \in {"bra_close", "link", "txt"}
CanBraceEnd(m) == InBrace(m) /\ Cur(m).type = "None"
CanBraceClose(m) == InBrace(m) /\ Cur(m).type = "bra_close" /\ Top(m).linkcount = 0
CanBraceText(m) ==
    /\ InBrace(m)
    /\ IF Cur(m).type = "bra_close" THEN Top(m).linkcount # 0
       ELSE Cur(m).type \in {"link", "txt"}
CanReturn(m) == m.pc = "parse" /\ m.stack # <<>> /\ Top(m).brk

\* one step of the machine, and the whole call
StepOf(m) ==
    CASE CanCall(m) -> StepCall(m)
      [] CanFinish(m) -> StepFinish(m)
      [] CanNoi(m) -> StepNoi(m)
      [] CanParseText(m) -> StepParseText(m)
      [] CanBraceEnd(m) -> StepBraceEnd(m)
      [] CanBraceClose(m) -> StepBraceClose(m)
      [] CanBraceText(m) -> StepBraceText(m)
      [] CanReturn(m) -> StepReturn(m)

RECURSIVE RunMachine(_)
RunMachine(m) == IF m.pc \in {"done", "raised"} THEN m ELSE RunMachine(StepOf(m))

\* Parser(txt, siteinfo=si).parse() without the cache, txt given by its tokens
ParseUncached(toks, si) == RunMachine(Machine(toks, si)).result

(***************************************************************************)
(* The machine as the state of the model                                   *)
(***************************************************************************)
M ==
    [tokens |-> tokens, pos |-> pos, stack |-> stack, n |-> n, pc |-> pc,
     result |-> result, siteinfo |-> siteinfo, closes |-> closes]

Becomes(m) ==
    /\ tokens' = m.tokens
    /\ pos' = m.pos
    /\ stack' = m.stack
    /\ n' = m.n
    /\ pc' = m.pc
    /\ result' = m.result
    /\ siteinfo' = m.siteinfo
    /\ closes' = m.closes
    /\ UNCHANGED <<fnVars, pipeVars, cacheVars>>

CallOpenBrace == CanCall(M) /\ Becomes(StepCall(M))
ParseFinish == CanFinish(M) /\ Becomes(StepFinish(M))
SkipNoinclude == CanNoi(M) /\ Becomes(StepNoi(M))
ParseText == CanParseText(M) /\ Becomes(StepParseText(M))
BraceEnd == CanBraceEnd(M) /\ Becomes(StepBraceEnd(M))
BraceClose == CanBraceClose(M) /\ Becomes(StepBraceClose(M))
BraceText == CanBraceText(M) /\ Becomes(StepBraceText(M))
BraceReturn == CanReturn(M) /\ Becomes(StepReturn(M))

(***************************************************************************)
(* Inputs                                                                  *)
(***************************************************************************)
MaxTokens == 4

OpenRuns == {Tok("bra_open", Repeat("{", k)) : k \in 2..4}
CloseRuns == {Tok("bra_close", Repeat("}", k)) : k \in 2..4}
Links == {Tok("link", <<"[", "[">>), Tok("link", <<"]", "]">>)}
Noinclude == Tok("noi", <<"<", "/", "i", ">">>)
Alphabet ==
    OpenRuns \cup CloseRuns \cup Links \cup {Noinclude, Tok("txt", <<"a">>), Tok("txt", <<"|">>)}

\* what tokenize returns: tokens, then the sentinel
Streams(alphabet, maxlen) ==
    {Append(body, Sentinel) : body \in UNION {[1..len -> alphabet] : len \in 0..maxlen}}

\* a siteinfo that lists if and switch under their own names
SiteEn ==
    <<[name |-> W_if, aliases |-> <<W_if>>],
      [name |-> W_switch, aliases |-> <<W_switch>>]>>

IdleFn == fnarg = Tuple(<<>>) /\ fnres = Tuple(<<>>) /\ fnpc = "idle"
IdlePipe == parsers = <<>> /\ tree = <<>> /\ applied = <<>> /\ given = <<>>
\* the options objects of the callers, and XBunch(): every attribute None
OptionObjects == {"o1", "o2"}
XBunch == [uniquifier |-> <<>>]

IdleCache == cache = <<>> /\ calls = <<>> /\ xopts = [o \in OptionObjects |-> XBunch]
IdleMacro ==
    /\ tokens = <<Sentinel>> /\ pos = 1 /\ stack = <<>> /\ n = <<>> /\ pc = "idle"
    /\ result = Tuple(<<>>) /\ siteinfo = SiteEn /\ closes = <<>>

Init ==
    /\ tokens \in Streams(Alphabet, MaxTokens)
    /\ pos = 1 /\ stack = <<>> /\ n = <<>> /\ pc = "parse"
    /\ result = Tuple(<<>>) /\ siteinfo = SiteEn /\ closes = <<>>
    /\ IdleFn /\ IdlePipe /\ IdleCache

Next ==
    \/ CallOpenBrace
    \/ ParseFinish
    \/ SkipNoinclude
    \/ ParseText
    \/ BraceEnd
    \/ BraceClose
    \/ BraceText
    \/ BraceReturn

Spec == Init /\ [][Next]_vars

(***************************************************************************)
(* Claims about Parser.parse, under Spec                                   *)
(***************************************************************************)
\* the token texts from position ps on, concatenated
RECURSIVE TextFrom(_, _)
TextFrom(toks, ps) ==
    IF ps > Len(toks) THEN <<>> ELSE toks[ps].txt \o TextFrom(toks, ps + 1)

\* the closing braces still in the stream from position ps on
RECURSIVE ClosingFrom(_, _)
ClosingFrom(toks, ps) ==
    IF ps > Len(toks) THEN 0
    ELSE (IF toks[ps].txt # <<>> /\ \A i \in 1..Len(toks[ps].txt) : toks[ps].txt[i] = "}"
          THEN Len(toks[ps].txt) ELSE 0)
         + ClosingFrom(toks, ps + 1)

\* C2: parse never raises: _consume_closing_braces is only called on a closing
\* run at least as long as the number of braces to consume, no open brace count
\* becomes negative, and a call that has ended has returned.
C2_NeverRaises ==
    /\ pc # "raised"
    /\ pos \in 1..Len(tokens)
    /\ \A i \in 1..Len(stack) : stack[i].numbraces >= 0
    /\ \A i \in 1..Len(closes) : closes[i].closelen >= closes[i].num
    /\ CanBraceClose(M) =>
           /\ Cur(M).type = "bra_close"
           /\ Len(Cur(M).txt) >= (IF CloseAsTemplate(Len(Cur(M).txt), Top(M).numbraces)
                                  THEN 2 ELSE 3)

\* C2 witness: a call returned although a closing run was longer than the open
\* run it closed, and another run was left unclosed
C2_Witness ==
    /\ pc = "done"
    /\ \E i \in 1..Len(closes) : closes[i].closelen > closes[i].numbraces
    /\ Len(closes) < Cardinality({i \in 1..Len(tokens) : tokens[i].type = "bra_open"})

\* C3: a closing run met at link depth 0 loses exactly 2 braces and closes a
\* template invocation when the run has length 2 or 2 braces are open, and else
\* loses exactly 3 and closes a Variable; the rest of the run stays at the current
\* position, as a closing run when 2 or more braces are left.
C3_CloseRule ==
    [][BraceClose =>
        LET closelen == Len(Cur(M).txt)
            open == Top(M).numbraces
            num == IF closelen = 2 \/ open = 2 THEN 2 ELSE 3
            made == stack'[Len(stack)].n
        IN /\ ClosingFrom(tokens, pos) - ClosingFrom(tokens', pos') = num
           /\ Len(stack') = Len(stack)
           /\ stack'[Len(stack)].numbraces = open - num
           /\ Len(made) = 1
           /\ (num = 3) <=> (made[1].k = "Variable")
           /\ (num = 2) <=> (made[1].k \in {"Template", "IfNode", "SwitchNode", "Magic", "Node"})
           /\ IF closelen = num
              THEN pos' = pos + 1 /\ tokens' = tokens
              ELSE /\ pos' = pos
                   /\ tokens'[pos].txt = Repeat("}", closelen - num)
                   /\ (closelen - num >= 2) => tokens'[pos].type = "bra_close"
                   /\ \A i \in 1..Len(tokens) : i # pos => tokens'[i] = tokens[i]
    ]_vars

\* C3 witness: the rest of a closing run of 4 that closed an inner template
\* closed the outer run
C3_Witness ==
    /\ pc = "done"
    /\ Len(closes) = 2
    /\ closes[1] = [closelen |-> 4, numbraces |-> 2, num |-> 2]
    /\ closes[2] = [closelen |-> 2, numbraces |-> 2, num |-> 2]

\* a sequence node whose children are text to be merged: not the argument slots
\* of a Template, IfNode, SwitchNode or Variable
RECURSIVE Normalized(_, _)
Normalized(x, isArgs) ==
    \/ IsString(x)
    \/ /\ x.k \in {"list", "Node"} => Len(x.c) # 1
       /\ x.k # "list"
       /\ (x.k \in {"tuple", "Node"} /\ ~isArgs) =>
              \A i \in 1..(Len(x.c) - 1) : ~(x.c[i].k = "str" /\ x.c[i + 1].k = "str")
       /\ \A i \in 1..Len(x.c) :
              Normalized(x.c[i], x.k \in {"Template", "SwitchNode"} /\ i = 2)

\* C8: every tree parse returns is normalized: no list is left, no generic Node
\* has exactly one child, and no sequence has two adjacent text children.
C8_Normalized == pc = "done" => Normalized(result, FALSE)

\* C9: an input without noinclude markers in which no brace run is closed
\* parses to one text, the concatenation of the token texts.
C9_LiteralRoundTrip ==
    (/\ pc = "done"
     /\ closes = <<>>
     /\ Len(tokens) > 1
     /\ \A i \in 1..Len(tokens) : tokens[i].type # "noi")
    => result = Str(TextFrom(tokens, 1))

\* C9 witness: {{a, an opening run that is never closed
C9_Witness ==
    /\ pc = "done"
    /\ closes = <<>>
    /\ tokens = <<Tok("bra_open", <<"{", "{">>), Tok("txt", <<"a">>), Sentinel>>
    /\ result = Str(<<"{", "{", "a">>)

(***************************************************************************)
(* template_from_children as a function of the children list               *)
(***************************************************************************)
MaxChildren == 4

\* what parse_open_brace has in n for the closed inner run {{b}}
InnerTemplate == List(<<Mk("Template", <<Str(<<"b">>), Tuple(<<>>)>>)>>)

ChildPool ==
    {Str(<<"a">>), T_pipe, T_eq, T_lopen, T_lclose, Str(<<" ">>), Str(<<"a", ":">>),
     Str(<<"#", "i", "f", ":">>), InnerTemplate}

\* the children of {{foo|a|b=c}}
ExampleFoo ==
    <<Str(<<"f", "o", "o">>), T_pipe, Str(<<"a">>), T_pipe, Str(<<"b">>), T_eq, Str(<<"c">>)>>

\* the link depth in front of child i: [[ opens a link, ]] closes an open one
RECURSIVE LinkDepth(_, _)
LinkDepth(seq, i) ==
    IF i <= 1 THEN 0
    ELSE LET d == LinkDepth(seq, i - 1)
         IN IF seq[i - 1] = T_lopen THEN d + 1
            ELSE IF seq[i - 1] = T_lclose /\ d > 0 THEN d - 1
            ELSE d

\* parse_open_brace closes a run only at linkcount 0 (line 283): the children
\* lists it hands over have every [[ closed
ChildrenLists ==
    {c \in UNION {[1..len -> ChildPool] : len \in 0..MaxChildren} :
        LinkDepth(c, Len(c) + 1) = 0}
    \cup {ExampleFoo}

CallTemplateFromChildren ==
    /\ fnpc = "call"
    /\ fnres' = template_from_children(siteinfo, fnarg.c)
    /\ fnpc' = "ret"
    /\ UNCHANGED <<fnarg, macroVars, pipeVars, cacheVars>>

InitTemplate ==
    /\ fnarg \in {List(c) : c \in ChildrenLists}
    /\ fnres = Tuple(<<>>) /\ fnpc = "call"
    /\ IdleMacro /\ IdlePipe /\ IdleCache

NextTemplate == CallTemplateFromChildren

SpecTemplate == InitTemplate /\ [][NextTemplate]_vars

Pipes(seq) == {i \in 1..Len(seq) : seq[i] = T_pipe}
Depth0Pipes(seq) == {i \in Pipes(seq) : LinkDepth(seq, i) = 0}
\* the k-th element of a set of numbers, and Len(seq) + 1 past the last
Kth(S, k, seq) ==
    IF k < 1 THEN 0
    ELSE IF k > Cardinality(S) THEN Len(seq) + 1
    ELSE CHOOSE i \in S : Cardinality({j \in S : j < i}) = k - 1

\* a name as the code trims it: a text is stripped
Trimmed(x) == IF IsString(x) THEN Str(Strip(x.s)) ELSE x

\* C4: the name of a Template is made of the children in front of the first |
\* at link depth 0, trimmed.
C4_NameUpToDepth0Pipe ==
    (fnpc = "ret" /\ fnres.k = "Template") =>
        LET e == Kth(Depth0Pipes(fnarg.c), 1, fnarg.c)
        IN fnres.c[1] = Trimmed(optimize(List(SubSeq(fnarg.c, 1, e - 1))))

\* the name the code looks at: the children in front of the first |, trimmed
NameOf(children) ==
    Trimmed(optimize(List(SubSeq(children, 1, Kth(Pipes(children), 1, children) - 1))))

\* the literal text of a name: the name, or its children that are text
NameText(name) ==
    IF IsString(name) THEN name.s
    ELSE JoinTexts([i \in 1..Len(name.c) |->
                       IF IsString(name.c[i]) THEN name.c[i].s ELSE <<>>])

HasBracket(s) == Contains(s, "[") \/ Contains(s, "]")
Reconstruction(children) ==
    Mk("Node", <<Str(<<"{", "{">>)>> \o children \o <<Str(<<"}", "}">>)>>)

ExpectedArgs(seq, ended) ==
    LET cut == Depth0Pipes(seq)
        marked == [i \in 1..Len(seq) |->
                      IF seq[i] = T_eq /\ LinkDepth(seq, i) = 0 THEN eqmark ELSE seq[i]]
    IN IF ~ended THEN <<>>
       ELSE [a \in 1..(Cardinality(cut) + 1) |->
                optimize(List(SubSeq(marked, Kth(cut, a - 1, seq) + 1, Kth(cut, a, seq) - 1)))]

\* C6: the children after the name are split into arguments at exactly the | at
\* link depth 0, one argument more than there are such | when a | ended the name
\* and none otherwise; a = at link depth 0 becomes the separator mark, and | and
\* = inside an unclosed [[ stay text of their argument.
C6_ArgsSplit ==
    (fnpc = "ret" /\ fnres.k = "Template") =>
        LET e == Kth(Pipes(fnarg.c), 1, fnarg.c)
            rest == SubSeq(fnarg.c, e + 1, Len(fnarg.c))
        IN fnres.c[2] = Tuple(ExpectedArgs(rest, e <= Len(fnarg.c)))

\* C6 witness: {{foo|a|b=c}} gives foo with the arguments a and b=c
C6_Witness ==
    /\ fnpc = "ret"
    /\ fnarg.c = ExampleFoo
    /\ fnres = Mk("Template",
                  <<Str(<<"f", "o", "o">>),
                    Tuple(<<Str(<<"a">>), Tuple(<<Str(<<"b">>), eqmark, Str(<<"c">>)>>)>>)>>)

(***************************************************************************)
(* optimize as a function of a macro tree                                  *)
(***************************************************************************)
MaxNodes == 4

Leaves == {Str(<<"a">>), eqmark}
\* the container types optimize tells apart: list, tuple and Node itself at any
\* depth, and the subclasses of Node, which it handles alike, at the root
Containers == {"list", "tuple", "Node"}
Subclasses == {"Template", "Variable", "IfNode", "SwitchNode"}

\* the trees of exactly size nodes, and the sequences of trees of that total size
RECURSIVE TreesOfSize(_)
RECURSIVE ForestsOfSize(_)
TreesOfSize(size) ==
    LET below == ForestsOfSize(size - 1)
    IN (IF size = 1 THEN Leaves ELSE {})
       \cup {Mk(kind, f) : kind \in Containers, f \in below}
ForestsOfSize(size) ==
    IF size = 0 THEN {<<>>}
    ELSE UNION {LET ts == TreesOfSize(first)
                    fs == ForestsOfSize(size - first)
                IN {<<t>> \o f : t \in ts, f \in fs} :
                first \in 1..size}

Trees ==
    UNION {TreesOfSize(size) : size \in 1..MaxNodes}
    \cup {Mk(kind, f) : kind \in Subclasses, f \in ForestsOfSize(MaxNodes - 1)}

CallOptimize ==
    /\ fnpc = "call"
    /\ fnres' = optimize(fnarg)
    /\ fnpc' = "ret"
    /\ UNCHANGED <<fnarg, macroVars, pipeVars, cacheVars>>

\* optimize applied to what optimize returned
CallOptimizeAgain ==
    /\ fnpc = "ret"
    /\ fnarg' = fnres
    /\ fnres' = optimize(fnres)
    /\ fnpc' = "ret2"
    /\ UNCHANGED <<macroVars, pipeVars, cacheVars>>

InitOptimize ==
    /\ fnarg \in Trees
    /\ fnres = Tuple(<<>>) /\ fnpc = "call"
    /\ IdleMacro /\ IdlePipe /\ IdleCache

NextOptimize == CallOptimize \/ CallOptimizeAgain

SpecOptimize == InitOptimize /\ [][NextOptimize]_vars

\* C7: optimize is idempotent: optimize(optimize(x)) = optimize(x).
C7_OptimizeIdempotent == fnpc = "ret2" => fnres = fnarg

\* C7 witness: the second pass over a tuple that the first pass made of a list
\* by merging its texts up to an equals mark
C7_Witness ==
    /\ fnpc = "ret2"
    /\ fnarg = Tuple(<<Str(<<"a", "a">>), eqmark>>)
    /\ fnres = fnarg

(***************************************************************************)
(* Parser.parse with use_cache (parser.py 83-85, 316-347).  A text is      *)
(* given by the token stream tokenize makes of it; its key in the cache is *)
(* its digest, taken to be free of collisions, so the text itself.         *)
(* Parser._cache is a sequence of [key, val], least recently used first.   *)
(***************************************************************************)
MaxCalls == 3
CacheCapacity == 2000

W_wenn == <<"w", "e", "n", "n">>

\* a siteinfo whose magic word if goes by the alias wenn
SiteDe ==
    <<[name |-> W_if, aliases |-> <<W_wenn>>],
      [name |-> W_switch, aliases |-> <<W_switch>>]>>

Sites == {SiteEn, SiteDe}

\* the texts a, {{a}}, {{#if:}} and {{#wenn:}}
CacheTexts ==
    LET open == Tok("bra_open", Repeat("{", 2))
        close == Tok("bra_close", Repeat("}", 2))
    IN {<<Tok("txt", <<"a">>), Sentinel>>,
        <<open, Tok("txt", <<"a">>), close, Sentinel>>,
        <<open, Tok("txt", <<"#">> \o W_if \o <<":">>), close, Sentinel>>,
        <<open, Tok("txt", <<"#">> \o W_wenn \o <<":">>), close, Sentinel>>}

\* fp in self._cache
CacheHas(c, fp) == \E i \in 1..Len(c) : c[i].key = fp

\* self._cache[fp]: the entry becomes the most recently used
CacheGet(c, fp) ==
    LET i == CHOOSE j \in 1..Len(c) : c[j].key = fp
    IN [val |-> c[i].val,
        cache |-> SubSeq(c, 1, i - 1) \o SubSeq(c, i + 1, Len(c)) \o <<c[i]>>]

\* self._cache[fp] = n: the least recently used entry leaves a full cache
CacheSet(c, fp, val) ==
    LET others == SelectSeq(c, LAMBDA e : e.key # fp)
        all == Append(others, [key |-> fp, val |-> val])
    IN IF Len(all) > CacheCapacity THEN Tail(all) ELSE all

\* Parser(txt, siteinfo=si).parse() on cache c: what it returns, and the cache after
parse(txt, si, use_cache, c) ==
    IF use_cache /\ CacheHas(c, txt)
    THEN CacheGet(c, txt)
    ELSE LET parsed == ParseUncached(txt, si)
         IN [val |-> parsed,
             cache |-> IF use_cache THEN CacheSet(c, txt, parsed) ELSE c]

Called(txt, si, use_cache) ==
    LET r == parse(txt, si, use_cache, cache)
    IN /\ cache' = r.cache
       /\ calls' = Append(calls, [txt |-> txt, siteinfo |-> si,
                                  use_cache |-> use_cache, ret |-> r.val])
       /\ UNCHANGED <<xopts, macroVars, fnVars, pipeVars>>

\* a parse call with Parser.use_cache set
ParseCached ==
    /\ Len(calls) < MaxCalls
    /\ \E txt \in CacheTexts, si \in Sites : Called(txt, si, TRUE)

\* a parse call with Parser.use_cache at its default
ParsePlain ==
    /\ Len(calls) < MaxCalls
    /\ \E txt \in CacheTexts, si \in Sites : Called(txt, si, FALSE)

InitCache == IdleMacro /\ IdleFn /\ IdlePipe /\ IdleCache

NextCache == ParseCached \/ ParsePlain

SpecCache == InitCache /\ [][NextCache]_vars

\* C10: memoization is transparent: after any earlier calls, a parse call with
\* use_cache returns what the same call returns without the cache, whatever the
\* text and the alias table.
C10_CacheTransparent ==
    \A i \in 1..Len(calls) :
        calls[i].use_cache =>
            calls[i].ret = ParseUncached(calls[i].txt, calls[i].siteinfo)

(***************************************************************************)
(* parse_txt and CombinedParser.__call__ (core.py 44-65, 811-830,          *)
(* 1231-1304).  A token is [tagname, children]; a pass rewrites the token  *)
(* lists it is called on in place, and what it makes of them is left open  *)
(* here: after a pass the tree is any tree of the bounded set.             *)
(***************************************************************************)
MaxDepth == 1

\* the list parsers of parse_txt
Passes ==
    <<"fix_li_tags", "mark_style_tags", "ParseSingleQuote", "ParsePreformatted",
      "td2", "ParseParagraphs", "td1", "ParseLines", "parse_div", "ParseLinks",
      "ParseUrls", "parse_inputbox", "td_parse_h", "ParseSections",
      "TableGarbageRemover", "TableFixer", "TableParser", "ParseUniq",
      "fix_named_url_double_brackets", "fix_break_between_pre">>

\* the passes that carry need_walker = False
NoWalker == {"fix_li_tags", "mark_style_tags", "ParsePreformatted", "ParseParagraphs"}

\* getattr(p, "need_walker", True)
need_walker(p) == p \notin NoWalker

\* skip_tags of the default walker
SkipTags == {"table", "tr", "@section"}

Token(tagname, children) == [tagname |-> tagname, children |-> children]
Leaf == Token("", <<>>)
Tagnames == {"table", "div"}

\* tokens nested up to depth levels, one token to a nested list
RECURSIVE TokensOfDepth(_)
TokensOfDepth(depth) ==
    IF depth = 0 THEN {Leaf}
    ELSE LET inner == TokensOfDepth(depth - 1)
         IN {Leaf} \cup {Token(t, <<x>>) : t \in Tagnames, x \in inner}

\* the token lists of up to two tokens
TokenTrees ==
    LET toks == TokensOfDepth(MaxDepth)
    IN UNION {[1..len -> toks] : len \in 0..2}

\* what tokenize returns: no token has children yet
FlatTrees == {t \in TokenTrees : \A i \in 1..Len(t) : t[i] = Leaf}

\* a mutant of WalkQueued: the children of a skipped tag are not walked
WalkQueuedUnlessSkipped(tok, skip_tags) ==
    tok.children # <<>> /\ tok.tagname \notin skip_tags

\* if children: todo.append(children)
WalkQueued(tok, skip_tags) == tok.children # <<>>

\* the walk of get_token_walker(skip_tags): res once todo is used up
RECURSIVE WalkTodo(_, _, _)
RECURSIVE WalkList(_, _, _, _, _)
WalkList(cur, i, todo, res, skip_tags) ==
    IF i > Len(cur) THEN WalkTodo(todo, res, skip_tags)
    ELSE LET children == cur[i].children
         IN IF WalkQueued(cur[i], skip_tags)
            THEN WalkList(cur, i + 1, Append(todo, children),
                          IF cur[i].tagname \notin skip_tags
                          THEN Append(res, children) ELSE res,
                          skip_tags)
            ELSE WalkList(cur, i + 1, todo, res, skip_tags)
WalkTodo(todo, res, skip_tags) ==
    IF todo = <<>> THEN res
    ELSE WalkList(todo[Len(todo)], 1, SubSeq(todo, 1, Len(todo) - 1), res, skip_tags)

\* get_token_walker(skip_tags)(toks)
get_token_walker(skip_tags, toks) == WalkTodo(<<toks>>, <<toks>>, skip_tags)

\* the default walker of CombinedParser.__call__
walk(toks) == get_token_walker(SkipTags, toks)

\* a mutant of PopIndex: the first parser is taken
PopIndexFirst(ps) == 1

\* parsers.pop() takes the last element
PopIndex(ps) == Len(ps)

PopTaken(ps) == ps[PopIndex(ps)]
PopRest(ps) == SubSeq(ps, 1, PopIndex(ps) - 1) \o SubSeq(ps, PopIndex(ps) + 1, Len(ps))

\* one round of the loop for a pass that needs the walker: p(x, xopts) for
\* every x of walker(tokens)
WalkerPass ==
    /\ parsers # <<>>
    /\ need_walker(PopTaken(parsers))
    /\ parsers' = PopRest(parsers)
    /\ applied' = Append(applied, PopTaken(parsers))
    /\ given' = walk(tree)
    /\ tree' \in TokenTrees
    /\ UNCHANGED <<macroVars, fnVars, cacheVars>>

\* one round of the loop for a pass with need_walker = False: p(tokens, xopts)
DirectPass ==
    /\ parsers # <<>>
    /\ ~need_walker(PopTaken(parsers))
    /\ parsers' = PopRest(parsers)
    /\ applied' = Append(applied, PopTaken(parsers))
    /\ given' = <<tree>>
    /\ tree' \in TokenTrees
    /\ UNCHANGED <<macroVars, fnVars, cacheVars>>

InitPipeline ==
    /\ parsers = Passes
    /\ tree \in FlatTrees
    /\ applied = <<>> /\ given = <<>>
    /\ IdleMacro /\ IdleFn /\ IdleCache

NextPipeline == WalkerPass \/ DirectPass

SpecPipeline == InitPipeline /\ [][NextPipeline]_vars

IsPrefix(a, b) == Len(a) <= Len(b) /\ a = SubSeq(b, 1, Len(a))

\* C1 as claimed: the passes are applied in the order of the list, fix_li_tags
\* first and fix_break_between_pre last.
C1_ListOrder ==
    /\ IsPrefix(applied,
                <<"fix_li_tags", "mark_style_tags", "ParseSingleQuote",
                  "ParsePreformatted", "td2", "ParseParagraphs", "td1", "ParseLines",
                  "parse_div", "ParseLinks", "ParseUrls", "parse_inputbox",
                  "td_parse_h", "ParseSections", "TableGarbageRemover", "TableFixer",
                  "TableParser", "ParseUniq", "fix_named_url_double_brackets",
                  "fix_break_between_pre">>)
    /\ parsers = <<>> => Len(applied) = 20

\* C1: a refine call applies the twenty passes exactly once each, in the reverse
\* of the order of the list: fix_break_between_pre first, then
\* fix_named_url_double_brackets, ParseUniq and so on up the list, fix_li_tags last.
C1_ReverseListOrder ==
    /\ IsPrefix(applied,
                <<"fix_break_between_pre", "fix_named_url_double_brackets",
                  "ParseUniq", "TableParser", "TableFixer", "TableGarbageRemover",
                  "ParseSections", "td_parse_h", "parse_inputbox", "ParseUrls",
                  "ParseLinks", "parse_div", "ParseLines", "td1", "ParseParagraphs",
                  "td2", "ParsePreformatted", "ParseSingleQuote", "mark_style_tags",
                  "fix_li_tags">>)
    /\ parsers = <<>> => Len(applied) = 20
    /\ Len(parsers) + Len(applied) = 20

\* C1 witness: the loop has ended, fix_li_tags being the last pass, called on the
\* whole token list of a tree that earlier passes gave nested tokens
C1_Witness ==
    /\ parsers = <<>>
    /\ Len(applied) = 20
    /\ applied[1] = "fix_break_between_pre"
    /\ applied[20] = "fix_li_tags"
    /\ given = <<<<Token("div", <<Leaf>>)>>>>

(***************************************************************************)
(* Parser.__init__ (parser.py 87-110) followed by Parser.parse: the call   *)
(* parse(txt, siteinfo=...) of lines 350-353.  fnarg is the siteinfo       *)
(* argument: [none, magicwords], none standing for siteinfo=None.          *)
(***************************************************************************)
\* what get_siteinfo("en") returns
get_siteinfo_en == SiteEn

SiteinfoArgs ==
    {[none |-> TRUE, magicwords |-> <<>>]}
    \cup {[none |-> FALSE, magicwords |-> si] : si \in Sites}

\* Parser.__init__: lines 94-97 and 110
Construct ==
    /\ pc = "new"
    /\ siteinfo' = IF fnarg.none THEN get_siteinfo_en ELSE fnarg.magicwords
    /\ pc' = "parse"
    /\ UNCHANGED <<tokens, pos, stack, n, result, closes, fnVars, pipeVars, cacheVars>>

InitConstruct ==
    /\ tokens \in Streams(Alphabet, MaxTokens - 2)
    /\ pos = 1 /\ stack = <<>> /\ n = <<>> /\ pc = "new"
    /\ result = Tuple(<<>>) /\ siteinfo = <<>> /\ closes = <<>>
    /\ fnarg \in SiteinfoArgs /\ fnres = Tuple(<<>>) /\ fnpc = "idle"
    /\ IdlePipe /\ IdleCache

NextConstruct == Construct \/ Next

SpecConstruct == InitConstruct /\ [][NextConstruct]_vars

\* C11: a parser made without an alias table (siteinfo is None) fails at once
\* with a configuration error and never goes on to parse with another table.
C11_FailsWithoutSiteinfo ==
    fnarg.none => pc \in {"new", "config_error"}

(***************************************************************************)
(* Refinement passes over token lists (core.py).  A token of a pass is     *)
(* [type, text, tagname, caption, level, children]; children = <<>> stands *)
(* for a token without children.                                           *)
(***************************************************************************)
NewToken(type, text, caption, children) ==
    [type |-> type, text |-> text, tagname |-> "", caption |-> caption,
     level |-> 0, children |-> children]

TextToken(text) == NewToken("text", text, <<>>, <<>>)
Newline == NewToken("newline", <<"\n">>, <<>>, <<>>)
Singlequote(count) == NewToken("singlequote", Repeat("'", count), <<>>, <<>>)

\* tokens[start:pos] = [tok], with 1-based start and pos
Splice(toks, start, ps, tok) ==
    SubSeq(toks, 1, start - 1) \o <<tok>> \o SubSeq(toks, ps, Len(toks))

(***************************************************************************)
(* ParseSingleQuote (core.py 233-317) and the quote engine it calls.       *)
(***************************************************************************)
MaxQuoteTokens == 3
MaxQuoteCount == 7

\* the quote engine's rule for one run: 2 toggles italic, 3 bold, 5 both, 4 is
\* 3 with one literal apostrophe, more than 5 is 5 with count - 5 of them
NextQuoteState(s, count) ==
    [apocount |-> s.apocount + (IF count = 4 THEN 1
                                ELSE IF count > 5 THEN count - 5 ELSE 0),
     is_bold |-> IF count >= 3 THEN ~s.is_bold ELSE s.is_bold,
     is_italic |-> IF count = 2 \/ count >= 5 THEN ~s.is_italic ELSE s.is_italic]

\* styleanalyzer.compute_path(counts): the state after each run of the line
RECURSIVE compute_path_from(_, _, _)
compute_path_from(counts, i, s) ==
    IF i > Len(counts) THEN <<>>
    ELSE LET next == NextQuoteState(s, counts[i])
         IN <<next>> \o compute_path_from(counts, i + 1, next)
compute_path(counts) ==
    compute_path_from(counts, 1, [apocount |-> 0, is_bold |-> FALSE, is_italic |-> FALSE])

\* a mutant of AposText: the apocount of the run itself
AposTextAbsolute(apocount, last_apocount) == Repeat("'", apocount)

\* "'" * (s.apocount - last_apocount)
AposText(apocount, last_apocount) == Repeat("'", Max({0, apocount - last_apocount}))

\* the body of the loop of finish for one style token (lines 248-266)
FinishStyle(style, s, last_apocount) ==
    LET apos == AposText(s.apocount, last_apocount)
        children == IF apos # <<>> THEN <<TextToken(apos)>> \o style.children
                    ELSE style.children
    IN IF s.is_bold /\ s.is_italic
       THEN [style EXCEPT !.caption = Repeat("'", 3),
                          !.children = <<NewToken("complex_style", <<>>,
                                                  Repeat("'", 2), children)>>]
       ELSE IF s.is_bold
       THEN [style EXCEPT !.caption = Repeat("'", 3), !.children = children]
       ELSE IF s.is_italic
       THEN [style EXCEPT !.caption = Repeat("'", 2), !.children = children]
       ELSE [style EXCEPT !.type = "complex_node", !.children = children]

\* ParseSingleQuote.finish from style i on; q is [tokens, log], styles holds the
\* positions of the style tokens in tokens, and log gets one entry per style
RECURSIVE QuoteFinishFrom(_, _, _, _, _)
QuoteFinishFrom(q, counts, styles, i, last_apocount) ==
    IF i > Len(counts) THEN q
    ELSE LET s == compute_path(counts)[i]
             done == FinishStyle(q.tokens[styles[i]], s, last_apocount)
         IN QuoteFinishFrom(
                [tokens |-> [q.tokens EXCEPT ![styles[i]] = done],
                 log |-> Append(q.log, [count |-> counts[i], state |-> s,
                                        last_apocount |-> last_apocount,
                                        before |-> q.tokens[styles[i]],
                                        after |-> done,
                                        counts |-> counts,
                                        spans |-> Len(styles)]),
                 raised |-> q.raised],
                counts, styles, i + 1, s.apocount)

\* if self.counts: self.finish(), which raises when the lengths differ
QuoteFinish(q, counts, styles) ==
    IF counts = <<>> THEN q
    ELSE IF Len(counts) # Len(styles) THEN [q EXCEPT !.raised = TRUE]
    ELSE QuoteFinishFrom(q, counts, styles, 1, 0)

\* a mutant of NextLineCounts: the counts of the line before are kept
NextLineCountsKept(counts) == counts

\* self.counts = [] after a newline (line 306)
NextLineCounts(counts) == <<>>

\* tokens[start:pos] = [Token(type=t_complex_style, children=tokens[start+1:pos])]
QuoteClose(q, start, ps) ==
    [q EXCEPT !.tokens =
        Splice(q.tokens, start, ps,
               NewToken("complex_style", <<>>, <<>>,
                        SubSeq(q.tokens, start + 1, ps - 1)))]

\* ParseSingleQuote.run from pos on; start = 0 stands for None
RECURSIVE QuoteRun(_, _, _, _, _)
QuoteRun(q, ps, start, counts, styles) ==
    IF q.raised THEN q
    ELSE IF ps > Len(q.tokens)
    THEN IF start # 0
         THEN QuoteFinish(QuoteClose(q, start, ps), counts, Append(styles, start))
         ELSE QuoteFinish(q, counts, styles)
    ELSE IF q.tokens[ps].type = "singlequote"
    THEN IF start = 0
         THEN QuoteRun(q, ps + 1, ps, Append(counts, Len(q.tokens[ps].text)), styles)
         ELSE QuoteRun(QuoteClose(q, start, ps), start + 1, 0, counts,
                       Append(styles, start))
    ELSE IF q.tokens[ps].type = "newline"
    THEN LET closed == IF start # 0 THEN QuoteClose(q, start, ps) ELSE q
             styles2 == IF start # 0 THEN Append(styles, start) ELSE styles
             ps2 == IF start # 0 THEN start + 1 ELSE ps + 1
         IN QuoteRun(QuoteFinish(closed, counts, styles2), ps2, 0,
                     NextLineCounts(counts), <<>>)
    ELSE QuoteRun(q, ps + 1, start, counts, styles)

ParseSingleQuote(toks) ==
    QuoteRun([tokens |-> toks, log |-> <<>>, raised |-> FALSE], 1, 0, <<>>, <<>>)

QuoteAlphabet ==
    {TextToken(<<"a">>), Newline} \cup {Singlequote(c) : c \in 2..MaxQuoteCount}

QuoteLists == UNION {[1..len -> QuoteAlphabet] : len \in 0..MaxQuoteTokens}

CallParseSingleQuote ==
    /\ fnpc = "call"
    /\ fnres' = ParseSingleQuote(fnarg)
    /\ fnpc' = "ret"
    /\ UNCHANGED <<fnarg, macroVars, pipeVars, cacheVars>>

InitQuote ==
    /\ fnarg \in QuoteLists
    /\ fnres = Tuple(<<>>) /\ fnpc = "call"
    /\ IdleMacro /\ IdlePipe /\ IdleCache

NextQuote == CallParseSingleQuote

SpecQuote == InitQuote /\ [][NextQuote]_vars

\* the runs of apostrophes of a token list, the line a position is on, and the
\* runs that share the line of position q
IsRun(toks, i) == toks[i].type = "singlequote"
LineOf(toks, i) == Cardinality({j \in 1..(i - 1) : toks[j].type = "newline"})
RunsOnLine(toks, q) == {i \in 1..Len(toks) : IsRun(toks, i) /\ LineOf(toks, i) = LineOf(toks, q)}
RunRank(toks, q) == Cardinality({i \in RunsOnLine(toks, q) : i <= q})
RunIndex(toks, q) == Cardinality({i \in 1..q : IsRun(toks, i)})
LineCounts(toks, q) ==
    LET runs == RunsOnLine(toks, q)
    IN [r \in 1..Cardinality(runs) |->
            Len(toks[CHOOSE i \in runs : RunRank(toks, i) = r].text)]

\* the tokens after position q up to the next run, the newline or the end of the list
SpanEnd(toks, q) ==
    Min({i \in (q + 1)..Len(toks) : toks[i].type \in {"newline", "singlequote"}}
        \cup {Len(toks) + 1})
SpanBody(toks, q) == SubSeq(toks, q + 1, SpanEnd(toks, q) - 1)

Italic(children) == NewToken("complex_style", <<>>, <<"'", "'">>, children)
Bold(children) == NewToken("complex_style", <<>>, <<"'", "'", "'">>, children)

\* the span the claim gives a line whose only run has count apostrophes
StyledAlone(count, body) ==
    IF count = 2 THEN Italic(body)
    ELSE IF count = 3 THEN Bold(body)
    ELSE IF count = 4 THEN Bold(<<TextToken(<<"'">>)>> \o body)
    ELSE IF count = 5 THEN Bold(<<Italic(body)>>)
    ELSE Bold(<<Italic(<<TextToken(Repeat("'", count - 5))>> \o body)>>)

\* C12: on a line with a single run of n apostrophes the span after the run is
\* italic for n = 2, bold for n = 3, bold around italic for n = 5, bold led by one
\* literal apostrophe for n = 4 and bold around italic led by n - 5 apostrophes
\* for n > 5; in general span i is led by as many apostrophes as the engine's
\* apocount of run i exceeds that of run i - 1, and a span neither bold nor
\* italic becomes a plain node.
C12_QuoteSpans ==
    fnpc = "ret" =>
        \A q \in 1..Len(fnarg) :
            IsRun(fnarg, q) =>
                LET entry == fnres.log[RunIndex(fnarg, q)]
                    body == SpanBody(fnarg, q)
                    states == compute_path(LineCounts(fnarg, q))
                    r == RunRank(fnarg, q)
                    s == states[r]
                    lead == s.apocount - (IF r = 1 THEN 0 ELSE states[r - 1].apocount)
                    kids == IF s.is_bold /\ s.is_italic
                            THEN entry.after.children[1].children
                            ELSE entry.after.children
                IN /\ \E i \in 1..Len(fnres.tokens) : fnres.tokens[i] = entry.after
                   /\ RunsOnLine(fnarg, q) = {q} =>
                          entry.after = StyledAlone(Len(fnarg[q].text), body)
                   /\ kids = (IF lead > 0 THEN <<TextToken(Repeat("'", lead))>> ELSE <<>>)
                             \o body
                   /\ (~s.is_bold /\ ~s.is_italic) <=> entry.after.type = "complex_node"

\* C12 witness: the line ''''a, whose span is bold and led by one apostrophe
C12_Witness ==
    /\ fnpc = "ret"
    /\ fnarg = <<Singlequote(4), TextToken(<<"a">>)>>
    /\ fnres.tokens = <<Bold(<<TextToken(<<"'">>), TextToken(<<"a">>)>>)>>

(***************************************************************************)
(* ParseSections (core.py 117-187).  The state of run is [tokens, i,       *)
(* start, endtitle, levels, top]: start and endtitle are those of current  *)
(* (0 for None), levels are the levels of the list sections, outermost     *)
(* first, and top is the position in tokens of sections[0]; sections[k+1]  *)
(* is the last child of sections[k] while both are in the list.            *)
(***************************************************************************)
SECTION_TAG == "@section"

\* text.count(ch)
Count(text, ch) == Cardinality({i \in 1..Len(text) : text[i] = ch})

SectionStart(text) == NewToken("section", text, <<>>, <<>>)
SectionEnd(text) == NewToken("endsection", text, <<>>, <<>>)
ComplexNode(children) == NewToken("complex_node", <<>>, <<>>, children)

\* Token(type=t_complex_section, tagname=SECTION_TAG, children=..., level=level)
SectionToken(level, children) ==
    [NewToken("complex_section", <<>>, <<>>, children)
        EXCEPT !.tagname = SECTION_TAG, !.level = level]

\* a mutant of SectionCaption: the tokens between the markers and nothing else
SectionCaptionBetween(toks, start, endtitle) ==
    ComplexNode(SubSeq(toks, start + 1, endtitle - 1))

\* the caption node of lines 137-146
SectionCaption(toks, start, endtitle) ==
    LET l1 == Count(toks[start].text, "=")
        l2 == Count(toks[endtitle].text, "=")
        between == SubSeq(toks, start + 1, endtitle - 1)
    IN ComplexNode(IF l2 > l1 THEN Append(between, TextToken(Repeat("=", l2 - l1)))
                   ELSE IF l1 > l2 THEN <<TextToken(Repeat("=", l1 - l2))>> \o between
                   ELSE between)

\* sections[-1].children.append(sect), sections[-1] lying depth levels below tok
RECURSIVE AppendBelow(_, _, _)
AppendBelow(tok, depth, sect) ==
    IF depth = 0 THEN [tok EXCEPT !.children = Append(tok.children, sect)]
    ELSE [tok EXCEPT !.children[Len(tok.children)] =
                         AppendBelow(tok.children[Len(tok.children)], depth - 1, sect)]

\* while sections and level <= sections[-1].level: sections.pop()
RECURSIVE PopLevels(_, _)
PopLevels(levels, level) ==
    IF levels # <<>> /\ level <= levels[Len(levels)]
    THEN PopLevels(SubSeq(levels, 1, Len(levels) - 1), level)
    ELSE levels

\* a mutant of SectionLevel: the length of the opening marker
SectionLevelOpen(l1, l2) == l1

\* level = min(l1, l2)
SectionLevel(l1, l2) == Min({l1, l2})

\* create() when it returns True
SectionCreate(st) ==
    LET toks == st.tokens
        level == SectionLevel(Count(toks[st.start].text, "="),
                              Count(toks[st.endtitle].text, "="))
        body == ComplexNode(SubSeq(toks, st.endtitle + 1, st.i - 1))
        sect == SectionToken(level, <<SectionCaption(toks, st.start, st.endtitle), body>>)
        levels == PopLevels(st.levels, level)
        placed == Splice(toks, st.start, st.i, sect)
        removed == SubSeq(placed, 1, st.start - 1) \o SubSeq(placed, st.start + 1, Len(placed))
    IN IF levels # <<>>
       THEN [st EXCEPT !.tokens = [removed EXCEPT ![st.top] =
                                      AppendBelow(removed[st.top], Len(levels) - 1, sect)],
                       !.start = st.start - 1,
                       !.levels = Append(levels, level)]
       ELSE [st EXCEPT !.tokens = placed, !.levels = <<level>>, !.top = st.start]

\* what create() returns
SectionCreates(st) == st.start # 0 /\ st.endtitle # 0

\* the loop of run from i on, and the create() after it
RECURSIVE SectionsRun(_)
SectionsRun(st) ==
    IF st.i > Len(st.tokens)
    THEN IF SectionCreates(st) THEN SectionCreate(st).tokens ELSE st.tokens
    ELSE IF st.tokens[st.i].type = "section"
    THEN IF SectionCreates(st)
         THEN LET made == SectionCreate(st)
              IN SectionsRun([made EXCEPT !.i = made.start + 1, !.start = 0, !.endtitle = 0])
         ELSE SectionsRun([st EXCEPT !.start = st.i, !.i = st.i + 1])
    ELSE IF st.tokens[st.i].type = "endsection"
    THEN SectionsRun([st EXCEPT !.endtitle = st.i, !.i = st.i + 1])
    ELSE SectionsRun([st EXCEPT !.i = st.i + 1])

ParseSections(toks) ==
    SectionsRun([tokens |-> toks, i |-> 1, start |-> 0, endtitle |-> 0,
                 levels |-> <<>>, top |-> 0])

MaxSectionTokens == 4
MaxHeadings == 3

SectionAlphabet ==
    {TextToken(<<"a">>)}
    \cup {SectionStart(Repeat("=", k)) : k \in 1..2}
    \cup {SectionEnd(Repeat("=", k)) : k \in 1..2}

\* a heading of level k with the title a, and a body of one token or none
Headings ==
    {<<SectionStart(Repeat("=", k)), TextToken(<<"a">>), SectionEnd(Repeat("=", k))>> \o body :
        k \in 1..3, body \in {<<>>, <<TextToken(<<"b">>)>>}}

RECURSIVE HeadingLists(_)
HeadingLists(count) ==
    IF count = 0 THEN {<<>>}
    ELSE LET shorter == HeadingLists(count - 1)
         IN shorter \cup {l \o h : l \in shorter, h \in Headings}

SectionLists ==
    UNION {[1..len -> SectionAlphabet] : len \in 0..MaxSectionTokens}
    \cup HeadingLists(MaxHeadings)

CallParseSections ==
    /\ fnpc = "call"
    /\ fnres' = ParseSections(fnarg)
    /\ fnpc' = "ret"
    /\ UNCHANGED <<fnarg, macroVars, pipeVars, cacheVars>>

InitSections ==
    /\ fnarg \in SectionLists
    /\ fnres = Tuple(<<>>) /\ fnpc = "call"
    /\ IdleMacro /\ IdlePipe /\ IdleCache

NextSections == CallParseSections

SpecSections == InitSections /\ [][NextSections]_vars

\* the members of a set of positions, in order
Ascending(S) ==
    [r \in 1..Cardinality(S) |-> CHOOSE i \in S : Cardinality({x \in S : x <= i}) = r]

HeadingStarts(toks) == Ascending({i \in 1..Len(toks) : toks[i].type = "section"})
HeadingEnds(toks) == Ascending({i \in 1..Len(toks) : toks[i].type = "endsection"})

\* heading starts and heading ends alternate, a start coming first
AlternatesProperly(toks) ==
    LET starts == HeadingStarts(toks)
        ends == HeadingEnds(toks)
    IN /\ Len(ends) <= Len(starts) /\ Len(starts) <= Len(ends) + 1
       /\ \A j \in 1..Len(ends) :
              /\ starts[j] < ends[j]
              /\ j < Len(starts) => ends[j] < starts[j + 1]

HeadingLevel(toks, j) ==
    Min({Count(toks[HeadingStarts(toks)[j]].text, "="),
         Count(toks[HeadingEnds(toks)[j]].text, "=")})

\* the nearest heading before j with a strictly smaller level, 0 if there is none
HeadingParent(toks, j) ==
    Max({k \in 1..(j - 1) : HeadingLevel(toks, k) < HeadingLevel(toks, j)} \cup {0})

HeadingBody(toks, j) ==
    LET starts == HeadingStarts(toks)
        stop == IF j < Len(starts) THEN starts[j + 1] ELSE Len(toks) + 1
    IN SubSeq(toks, HeadingEnds(toks)[j] + 1, stop - 1)

\* the section of heading j: caption, body, then the sections whose parent it is
RECURSIVE ExpectedSection(_, _)
ExpectedSection(toks, j) ==
    LET kids == Ascending({k \in 1..Len(HeadingEnds(toks)) : HeadingParent(toks, k) = j})
    IN SectionToken(HeadingLevel(toks, j),
                    <<SectionCaption(toks, HeadingStarts(toks)[j], HeadingEnds(toks)[j]),
                      ComplexNode(HeadingBody(toks, j))>>
                    \o [r \in 1..Len(kids) |-> ExpectedSection(toks, kids[r])])

ExpectedSections(toks) ==
    LET starts == HeadingStarts(toks)
        count == Len(HeadingEnds(toks))
        tops == Ascending({k \in 1..count : HeadingParent(toks, k) = 0})
    IN IF starts = <<>> THEN toks
       ELSE SubSeq(toks, 1, starts[1] - 1)
            \o [r \in 1..Len(tops) |-> ExpectedSection(toks, tops[r])]
            \o (IF Len(starts) > count THEN SubSeq(toks, starts[count + 1], Len(toks))
                ELSE <<>>)

\* C13: in a list whose heading starts and heading ends alternate properly, each
\* section has the level min(open length, close length), is a child of the
\* nearest preceding section of strictly smaller level or else a top-level
\* sibling, and has as body the tokens between its end-of-title marker and the
\* next heading start or the end of the list.
C13_SectionNesting ==
    (fnpc = "ret" /\ AlternatesProperly(fnarg)) => fnres = ExpectedSections(fnarg)

\* C13 witness: =A=, ==B==, =C= give top-level A containing B, and top-level C
C13_Witness ==
    LET title == ComplexNode(<<TextToken(<<"a">>)>>)
        empty == ComplexNode(<<>>)
    IN /\ fnpc = "ret"
       /\ Len(fnarg) = 9
       /\ fnres = <<SectionToken(1, <<title, empty, SectionToken(2, <<title, empty>>)>>),
                    SectionToken(1, <<title, empty>>)>>

(***************************************************************************)
(* get_token_walker (core.py 44-65) on its own: trees whose tokens carry   *)
(* their place in the tree as id, so that every token, and with it every   *)
(* non-empty list, is told apart from the others.  fnarg is                *)
(* [tokens, skip_tags].                                                    *)
(***************************************************************************)
MaxWalkNodes == 4

\* the forests of exactly count tokens
RECURSIVE WalkForests(_)
WalkForests(count) ==
    IF count = 0 THEN {<<>>}
    ELSE UNION {LET kids == WalkForests(inner)
                    rest == WalkForests(count - 1 - inner)
                IN {<<Token(t, c)>> \o r : t \in Tagnames, c \in kids, r \in rest} :
                inner \in 0..(count - 1)}

RECURSIVE Identified(_, _)
Identified(toks, path) ==
    [i \in 1..Len(toks) |->
        [tagname |-> toks[i].tagname, id |-> Append(path, i),
         children |-> Identified(toks[i].children, Append(path, i))]]

WalkTrees == {Identified(f, <<>>) : f \in UNION {WalkForests(c) : c \in 0..MaxWalkNodes}}

SkipTagSets == {{}, {"div"}, SkipTags, SkipTags \cup {"div"}}

CallWalk ==
    /\ fnpc = "call"
    /\ fnres' = get_token_walker(fnarg.skip_tags, fnarg.tokens)
    /\ fnpc' = "ret"
    /\ UNCHANGED <<fnarg, macroVars, pipeVars, cacheVars>>

InitWalk ==
    /\ fnarg \in [tokens : WalkTrees, skip_tags : SkipTagSets]
    /\ fnres = Tuple(<<>>) /\ fnpc = "call"
    /\ IdleMacro /\ IdlePipe /\ IdleCache

NextWalk == CallWalk

SpecWalk == InitWalk /\ [][NextWalk]_vars

\* every token reachable from a list through children links
RECURSIVE Reachable(_)
Reachable(toks) ==
    UNION {{toks[i]} \cup Reachable(toks[i].children) : i \in 1..Len(toks)}

InList(toks, t) == \E j \in 1..Len(toks) : toks[j] = t

\* C14: the walker returns the root list, then, exactly once each, the child
\* list of every token reachable from the root (also through opaque tokens)
\* whose child list is not empty and whose kind is not opaque; the child list of
\* an opaque token is not returned, and the token stays in its parent's list.
C14_WalkerLists ==
    fnpc = "ret" =>
        LET owners == {t \in Reachable(fnarg.tokens) :
                          t.children # <<>> /\ t.tagname \notin fnarg.skip_tags}
        IN /\ fnres[1] = fnarg.tokens
           /\ {fnres[i] : i \in 2..Len(fnres)} = {t.children : t \in owners}
           /\ Len(fnres) = 1 + Cardinality(owners)
           /\ \A t \in Reachable(fnarg.tokens) :
                  t.tagname \in fnarg.skip_tags =>
                      /\ \A i \in 2..Len(fnres) : fnres[i] # t.children
                      /\ (InList(fnarg.tokens, t) \/ \E u \in owners : InList(u.children, t))
                             => \E i \in 1..Len(fnres) : InList(fnres[i], t)

\* C14 witness: a table holding a div holding a token; the list of the div is
\* returned, that of the table is not
C14_Witness ==
    /\ fnpc = "ret"
    /\ fnarg.skip_tags = SkipTags
    /\ Len(fnarg.tokens) = 1
    /\ fnarg.tokens[1].tagname = "table"
    /\ Len(fnarg.tokens[1].children) = 1
    /\ fnarg.tokens[1].children[1].tagname = "div"
    /\ fnres = <<fnarg.tokens, fnarg.tokens[1].children[1].children>>
    /\ Len(fnres[2]) = 1

(***************************************************************************)
(* ParseParagraphs (core.py 766-808).  Its tokens carry blocknode besides  *)
(* the fields of NewToken.  The lists the walker returns are rewritten in  *)
(* place, each on its own: run looks at the type and the blocknode of the  *)
(* tokens of its list only, so a list is rewritten here once the lists     *)
(* below it are.  The tokens of an input carry their place in the tree as  *)
(* text, which tells the lists of the input apart.                         *)
(***************************************************************************)
BlockToken(type, tagname, blocknode, children) ==
    [type |-> type, text |-> <<>>, tagname |-> tagname, caption |-> <<>>,
     level |-> 0, children |-> children, blocknode |-> blocknode]

Break == BlockToken("break", "", FALSE, <<>>)

\* Token(type=t_complex_tag, tagname="p", children=sub, blocknode=True)
ParagraphToken(sub) == BlockToken("complex_tag", "p", TRUE, sub)

ParagraphSkipTags == {"p", "ol", "ul", "table", "tr", SECTION_TAG}

\* a mutant of ParagraphSub: the paragraph takes the tokens from the start of the list
ParagraphSubFromStart(toks, first, i) == SubSeq(toks, 1, i - 1)

\* sub = tokens[first:i], with 1-based first and i
ParagraphSub(toks, first, i) == SubSeq(toks, first, i - 1)

\* create(delta): tokens[first:i + delta] = [p] when sub is not empty
ParagraphCreate(toks, first, i, delta) ==
    LET sub == ParagraphSub(toks, first, i)
    IN IF sub # <<>>
       THEN SubSeq(toks, 1, first - 1) \o <<ParagraphToken(sub)>>
            \o SubSeq(toks, i + delta, Len(toks))
       ELSE toks

\* the loop of run with 1-based i and first, and the create() after it
RECURSIVE ParagraphsRun(_, _, _)
ParagraphsRun(toks, i, first) ==
    IF i > Len(toks)
    THEN IF first # 1 THEN ParagraphCreate(toks, first, i, 1) ELSE toks
    ELSE IF toks[i].type = "break"
    THEN ParagraphsRun(ParagraphCreate(toks, first, i, 1), first + 1, first + 1)
    ELSE IF toks[i].blocknode
    THEN ParagraphsRun(ParagraphCreate(toks, first, i, 0), first + 1, first + 1)
    ELSE ParagraphsRun(toks, i + 1, first)

\* for t in walker(tokens): run on t; walked holds the lists the walker returned
RECURSIVE ParagraphsIn(_, _)
ParagraphsIn(toks, walked) ==
    LET below == [j \in 1..Len(toks) |->
                     IF toks[j].children = <<>> THEN toks[j]
                     ELSE [toks[j] EXCEPT !.children = ParagraphsIn(toks[j].children, walked)]]
    IN IF \E k \in 1..Len(walked) : walked[k] = toks
       THEN ParagraphsRun(below, 1, 1)
       ELSE below

ParseParagraphs(toks) == ParagraphsIn(toks, get_token_walker(ParagraphSkipTags, toks))

MaxCellTokens == 2

CellKinds ==
    {BlockToken("text", "", FALSE, <<>>), Break,
     BlockToken("complex_tag", "div", TRUE, <<>>)}

CellLists == UNION {[1..len -> CellKinds] : len \in 0..MaxCellTokens}

\* a table of one row of two cells, with or without a break between the cells
CellTables ==
    {BlockToken("complex_table", "table", block,
                <<BlockToken("complex_table_row", "tr", FALSE,
                             <<BlockToken("complex_table_cell", "td", FALSE, c1)>>
                             \o between
                             \o <<BlockToken("complex_table_cell", "td", FALSE, c2)>>)>>) :
        block \in BOOLEAN, between \in {<<>>, <<Break>>}, c1 \in CellLists, c2 \in CellLists}

\* every token gets its place in the tree as text
RECURSIVE Labelled(_, _)
Labelled(toks, path) ==
    [j \in 1..Len(toks) |->
        [toks[j] EXCEPT !.text = Append(path, j),
                        !.children = Labelled(toks[j].children, Append(path, j))]]

ParagraphInputs ==
    {Labelled(before \o <<t>> \o after, <<>>) :
        before \in {<<>>, <<BlockToken("text", "", FALSE, <<>>)>>},
        t \in CellTables,
        after \in {<<>>, <<Break>>}}

CallParseParagraphs ==
    /\ fnpc = "call"
    /\ fnres' = ParseParagraphs(fnarg)
    /\ fnpc' = "ret"
    /\ UNCHANGED <<fnarg, macroVars, pipeVars, cacheVars>>

InitParagraphs ==
    /\ fnarg \in ParagraphInputs
    /\ fnres = Tuple(<<>>) /\ fnpc = "call"
    /\ IdleMacro /\ IdlePipe /\ IdleCache

NextParagraphs == CallParseParagraphs

SpecParagraphs == InitParagraphs /\ [][NextParagraphs]_vars

Ids(toks) == [j \in 1..Len(toks) |-> toks[j].text]
InputLists(toks) == {toks} \cup {t.children : t \in Reachable(toks)}
NewParagraphs(toks) == {t \in Reachable(toks) : t.tagname = "p" /\ t.text = <<>>}
IsSliceOf(ids, toks) ==
    /\ ids # <<>>
    /\ \E a \in 1..Len(toks) :
           /\ a + Len(ids) - 1 <= Len(toks)
           /\ Ids(SubSeq(toks, a, a + Len(ids) - 1)) = ids

SharesToken(a, b) == \E j \in 1..Len(a), k \in 1..Len(b) : a[j].text = b[k].text

\* C15: ParseParagraphs leaves the child list of a table and of a table row as
\* it is, every paragraph it creates has as children a contiguous slice of one
\* sibling list of the input, and no paragraph has children from two cells.
C15_CellIsolation ==
    fnpc = "ret" =>
        /\ \A t \in Reachable(fnarg) :
               t.tagname \in {"table", "tr"} =>
                   \E u \in Reachable(fnres) :
                       u.text = t.text /\ Ids(u.children) = Ids(t.children)
        /\ \A p \in NewParagraphs(fnres) :
               /\ \E toks \in InputLists(fnarg) :
                      /\ IsSliceOf(Ids(p.children), toks)
                      /\ \A t \in Reachable(fnarg) :
                             t.children = toks => t.tagname \notin {"table", "tr"}
               /\ \A c1, c2 \in {t \in Reachable(fnarg) : t.tagname = "td"} :
                      (/\ SharesToken(p.children, c1.children)
                       /\ SharesToken(p.children, c2.children))
                          => c1 = c2

\* C15 witness: a row of two cells with a break between them; each cell ends in
\* a break and gets a paragraph of its own
C15_Witness ==
    /\ fnpc = "ret"
    /\ Len(fnarg) = 1
    /\ Len(fnarg[1].children[1].children) = 3
    /\ fnarg[1].children[1].children[2].type = "break"
    /\ Ids(fnres[1].children[1].children) = Ids(fnarg[1].children[1].children)
    /\ \A k \in {1, 3} :
           LET cell == fnres[1].children[1].children[k]
           IN /\ Len(cell.children) = 1
              /\ cell.children[1].tagname = "p"
              /\ Len(cell.children[1].children) = 1

(***************************************************************************)
(* ParsePreformatted.run (core.py 329-363) on one list; for a list of      *)
(* tokens without children the walker of __init__ returns that list alone. *)
(***************************************************************************)
MaxPreTokens == 4

Pre == BlockToken("pre", "", FALSE, <<>>)

\* Token(type=t_complex_preformatted, children=sub, blocknode=True)
PreformattedToken(sub) == BlockToken("complex_preformatted", "", TRUE, sub)

\* the condition of lines 356-359
EndsPreformatted(t) ==
    t.blocknode \/ (t.type = "complex_tag"
                    /\ t.tagname \in {"blockquote", "table", "timeline", "div"})

\* one iteration of the loop of run with 1-based i; start = 0 stands for None
PreformattedStep(toks, i, start) ==
    IF toks[i].type = "pre" THEN [tokens |-> toks, i |-> i + 1, start |-> i]
    ELSE IF toks[i].type = "newline" /\ start # 0
    THEN LET sub == SubSeq(toks, start + 1, i)
             joins == IF start > 1 THEN toks[start - 1].type = "complex_preformatted"
                      ELSE FALSE
         IN IF joins
            THEN [tokens |-> SubSeq(toks, 1, start - 2)
                             \o <<[toks[start - 1]
                                      EXCEPT !.children = toks[start - 1].children \o sub]>>
                             \o SubSeq(toks, i + 1, Len(toks)),
                  i |-> start, start |-> 0]
            ELSE [tokens |-> SubSeq(toks, 1, start - 1) \o <<PreformattedToken(sub)>>
                             \o SubSeq(toks, i + 1, Len(toks)),
                  i |-> start + 1, start |-> 0]
    ELSE IF EndsPreformatted(toks[i]) THEN [tokens |-> toks, i |-> i + 1, start |-> 0]
    ELSE [tokens |-> toks, i |-> i + 1, start |-> start]

\* the loop of run
RECURSIVE PreformattedRun(_, _, _)
PreformattedRun(toks, i, start) ==
    IF i > Len(toks) THEN toks
    ELSE LET s == PreformattedStep(toks, i, start)
         IN PreformattedRun(s.tokens, s.i, s.start)

ParsePreformatted(toks) == PreformattedRun(toks, 1, 0)

PreAlphabet ==
    {Pre, BlockToken("newline", "", FALSE, <<>>), BlockToken("text", "", FALSE, <<>>),
     BlockToken("complex_tag", "div", FALSE, <<>>)}

PreLists == UNION {[1..len -> PreAlphabet] : len \in 0..MaxPreTokens}

CallParsePreformatted ==
    /\ fnpc = "call"
    /\ fnres' = ParsePreformatted(fnarg)
    /\ fnpc' = "ret"
    /\ UNCHANGED <<fnarg, macroVars, pipeVars, cacheVars>>

InitPreformatted ==
    /\ fnarg \in PreLists
    /\ fnres = Tuple(<<>>) /\ fnpc = "call"
    /\ IdleMacro /\ IdlePipe /\ IdleCache

NextPreformatted == CallParsePreformatted

SpecPreformatted == InitPreformatted /\ [][NextPreformatted]_vars

\* the position of the preformatted-start token that is open at the end of the
\* list, 0 if there is none
OpenPre(toks) ==
    Max({q \in 1..Len(toks) :
            /\ toks[q].type = "pre"
            /\ \A j \in (q + 1)..Len(toks) :
                   toks[j].type \notin {"pre", "newline"} /\ ~EndsPreformatted(toks[j])}
        \cup {0})

IsSuffix(a, b) == Len(a) <= Len(b) /\ a = SubSeq(b, Len(b) - Len(a) + 1, Len(b))

\* C16: when a list ends while a preformatted line is open, ParsePreformatted
\* ends it with a preformatted block whose body is all the tokens after the
\* start token.
C16_OpenPreFinalized ==
    (fnpc = "ret" /\ OpenPre(fnarg) # 0) =>
        /\ fnres # <<>>
        /\ fnres[Len(fnres)].type = "complex_preformatted"
        /\ IsSuffix(SubSeq(fnarg, OpenPre(fnarg) + 1, Len(fnarg)),
                    fnres[Len(fnres)].children)

(***************************************************************************)
(* ParseLines (core.py 366-615).  Its tokens carry lineprefix and          *)
(* rawtagname besides the fields of BlockToken; a lineprefix of None is    *)
(* the empty text, which getchar treats alike.  The lists that the code    *)
(* changes in place are values here: analyze returns the new lines, and    *)
(* raised once get_node_and_newitem has returned the node None, whose      *)
(* children cannot be set.                                                 *)
(***************************************************************************)
LineToken(type, text, tagname, caption, children, blocknode, lineprefix) ==
    [type |-> type, text |-> text, tagname |-> tagname, caption |-> caption,
     level |-> 0, children |-> children, blocknode |-> blocknode,
     lineprefix |-> lineprefix, rawtagname |-> ""]

PlainToken(type, text) == LineToken(type, text, "", <<>>, <<>>, FALSE, <<>>)

\* Token(type=t_complex_line, children=sub, lineprefix=...)
ComplexLine(sub, lineprefix) ==
    LineToken("complex_line", <<>>, "", <<>>, sub, FALSE, lineprefix)

\* getchar(node): "" stands for None
getchar(node) == IF node.lineprefix # <<>> THEN node.lineprefix[1] ELSE ""

handle_no_prefix(line) ==
    [line EXCEPT !.type = IF line.tagname # "" THEN "complex_tag" ELSE "complex_node"]

KnownPrefixes == {":", "*", "#", ";"}

\* a mutant of NodeOf: every prefix character gives an unordered list
NodeOfUl(prefix) == LineToken("complex_tag", <<>>, "ul", <<>>, <<>>, FALSE, <<>>)

\* get_node_and_newitem(prefix): node, newitem() and endtag ("" for None)
NodeOf(prefix) ==
    IF prefix \in {":", ";"}
    THEN LineToken("complex_style", <<>>, "", <<prefix>>, <<>>, FALSE, <<>>)
    ELSE LineToken("complex_tag", <<>>,
                   IF prefix = "*" THEN "ul" ELSE "ol", <<>>, <<>>, FALSE, <<>>)
NewItemOf(prefix) ==
    IF prefix \in {":", ";"}
    THEN LineToken("complex_node", <<>>, "", <<>>, <<>>, TRUE, <<>>)
    ELSE LineToken("complex_tag", <<>>, "li", <<>>, <<>>, TRUE, <<>>)
EndtagOf(prefix) ==
    IF prefix = "*" THEN "ul" ELSE IF prefix = "#" THEN "ol" ELSE ""

\* splitdl(item): the position of the first special ":" among the children, 0 if none
SplitAt(item) ==
    Min({i \in 1..Len(item.children) :
            item.children[i].type = "special" /\ item.children[i].text = <<":">>}
        \cup {Len(item.children) + 1})
SplitFound(item) == SplitAt(item) <= Len(item.children)
SplitTaken(item) ==
    LineToken("complex_style", <<>>, "", <<":">>,
              SubSeq(item.children, SplitAt(item) + 1, Len(item.children)), FALSE, <<>>)
SplitLeft(item) == [item EXCEPT !.children = SubSeq(item.children, 1, SplitAt(item) - 1)]

\* append_line(lines, startpos, item, endtag): the lines and the item after it
EndtagAt(line, endtag) ==
    Min({i \in 1..Len(line.children) :
            line.children[i].rawtagname = endtag /\ line.children[i].type = "html_tag_end"}
        \cup {Len(line.children) + 1})
append_line(lines, startpos, item, endtag) ==
    LET line == lines[startpos]
        at == EndtagAt(line, endtag)
    IN IF endtag # "" /\ at <= Len(line.children)
       THEN [lines |-> [lines EXCEPT ![startpos] =
                           [ComplexLine(SubSeq(line.children, at + 1, Len(line.children)), <<>>)
                               EXCEPT !.tagname = "p"]],
             item |-> [item EXCEPT !.children =
                          Append(item.children,
                                 [line EXCEPT !.children = SubSeq(line.children, 1, at - 1)])]]
       ELSE [lines |-> SubSeq(lines, 1, startpos - 1) \o SubSeq(lines, startpos + 1, Len(lines)),
             item |-> [item EXCEPT !.children = Append(item.children, line)]]

\* the inner loop of collect_items (lines 498-503)
RECURSIVE AppendDeeper(_, _, _, _, _)
AppendDeeper(lines, startpos, prefix, item, endtag) ==
    IF startpos <= Len(lines)
    THEN IF prefix = getchar(lines[startpos]) /\ Len(lines[startpos].lineprefix) > 1
         THEN LET a == append_line(lines, startpos, item, endtag)
              IN AppendDeeper(a.lines, startpos, prefix, a.item, endtag)
         ELSE [lines |-> lines, item |-> item]
    ELSE [lines |-> lines, item |-> item]

RECURSIVE AnalyzeFrom(_, _)
RECURSIVE collect_items(_, _, _, _, _)

\* x.lineprefix = x.lineprefix[1:] for x in item.children
CutPrefixes(children) ==
    [j \in 1..Len(children) |-> [children[j] EXCEPT !.lineprefix = Tail(@)]]

\* prefix == ";" and item.children and item.children[0].type == t_complex_node,
\* and splitdl finds a ":" there
Splits(prefix, item) ==
    IF prefix = ";" /\ item.children # <<>>
    THEN item.children[1].type = "complex_node" /\ SplitFound(item.children[1])
    ELSE FALSE

\* node.children.append(item), the item as splitdl leaves it
Grown(prefix, node, item) ==
    [node EXCEPT !.children =
        Append(@, IF Splits(prefix, item)
                  THEN [item EXCEPT !.children[1] = SplitLeft(item.children[1])]
                  ELSE item)]

\* one round of the loop of collect_items after analyze(item.children)
CollectItem(lines, startpos, prefix, node, dd, item, raised) ==
    IF raised
    THEN [lines |-> lines, node |-> Grown(prefix, node, item), dd |-> dd, raised |-> TRUE]
    ELSE IF Splits(prefix, item)
    THEN [lines |-> lines, node |-> Grown(prefix, node, item),
          dd |-> <<SplitTaken(item.children[1])>>, raised |-> FALSE]
    ELSE IF prefix \in {":", ";"}
    THEN [lines |-> lines, node |-> Grown(prefix, node, item), dd |-> dd, raised |-> FALSE]
    ELSE collect_items(lines, startpos, prefix, Grown(prefix, node, item), dd)

\* one round after the lines of the item are taken: analyze(item.children)
CollectAnalyzed(lines, startpos, prefix, node, dd, item, inner) ==
    CollectItem(lines, startpos, prefix, node, dd,
                [item EXCEPT !.children = inner.lines], inner.raised)

CollectTaken(startpos, prefix, node, dd, more) ==
    CollectAnalyzed(more.lines, startpos, prefix, node, dd, more.item,
                    AnalyzeFrom(CutPrefixes(more.item.children), 1))

CollectFirst(startpos, prefix, node, dd, first) ==
    CollectTaken(startpos, prefix, node, dd,
                 AppendDeeper(first.lines, startpos, prefix, first.item, EndtagOf(prefix)))

\* collect_items from one round of its loop on: [lines, node, dd, raised], dd
\* being <<>> for None and <<token>> else
collect_items(lines, startpos, prefix, node, dd) ==
    IF startpos <= Len(lines)
    THEN IF getchar(lines[startpos]) = prefix
         THEN CollectFirst(startpos, prefix, node, dd,
                           append_line(lines, startpos, NewItemOf(prefix), EndtagOf(prefix)))
         ELSE [lines |-> lines, node |-> node, dd |-> dd, raised |-> FALSE]
    ELSE [lines |-> lines, node |-> node, dd |-> dd, raised |-> FALSE]

\* lines.insert(startpos, node) and lines.insert(startpos, dd), then the loop
\* of analyze goes on
AnalyzeCollected(startpos, c) ==
    IF c.raised THEN [lines |-> c.lines, raised |-> TRUE]
    ELSE AnalyzeFrom(SubSeq(c.lines, 1, startpos - 1) \o <<c.node>> \o c.dd
                         \o SubSeq(c.lines, startpos, Len(c.lines)),
                     startpos + 1 + Len(c.dd))

AnalyzePrefix(lines, startpos, prefix) ==
    IF prefix = ""
    THEN AnalyzeFrom([lines EXCEPT ![startpos] = handle_no_prefix(@)], startpos + 1)
    ELSE IF prefix \notin KnownPrefixes
    THEN [lines |-> lines, raised |-> TRUE]
    ELSE AnalyzeCollected(startpos,
                          collect_items(lines, startpos, prefix, NodeOf(prefix), <<>>))

\* the loop of analyze from startpos on, the guard left out: [lines, raised]
AnalyzeFrom(lines, startpos) ==
    IF startpos > Len(lines) THEN [lines |-> lines, raised |-> FALSE]
    ELSE AnalyzePrefix(lines, startpos, getchar(lines[startpos]))

analyze(lines) == AnalyzeFrom(lines, 1)

\* get_line_prefix(start_line)
get_line_prefix(toks, start_line) == Strip(toks[start_line].text)

\* a mutant of LastLineBody: the last line gets no tokens
LastLineBodyEmpty(toks, start_line) == <<>>

\* sub = self.tokens[start_line + 1:]
LastLineBody(toks, start_line) == SubSeq(toks, start_line + 1, Len(toks))

\* i = first_token without the replacement of the slice
LinesRescanned(st, i, a) ==
    [st EXCEPT !.i = st.first_token, !.first_token = 0, !.lines = <<>>,
               !.raised = a.raised]

\* tokens[first_token:i] = lines for the analyzed lines a, with 1-based
\* first_token and i
LinesReplaced(st, i, a) ==
    [st EXCEPT !.tokens = SubSeq(st.tokens, 1, st.first_token - 1) \o a.lines
                          \o SubSeq(st.tokens, i, Len(st.tokens)),
               !.i = st.first_token, !.first_token = 0, !.lines = <<>>,
               !.raised = a.raised]

\* analyze(lines) and tokens[first_token:i] = lines
LinesPlaced(st, i) == LinesReplaced(st, i, analyze(st.lines))

\* lines.append(Token(type=t_complex_line, children=sub, lineprefix=...))
LineAppended(st, sub) ==
    [st EXCEPT !.lines = Append(@, ComplexLine(sub, get_line_prefix(st.tokens, st.start_line))),
               !.start_line = 0]

\* lines 554-567, last recording the line made after the loop
LinesEnd(st, ended) ==
    IF ended.lines # <<>> THEN LinesPlaced(ended, Len(st.tokens) + 1) ELSE ended

\* process_break after the open line is closed
LinesBroken(i, closed) ==
    IF closed.lines # <<>>
    THEN LinesPlaced(closed, i)
    ELSE [closed EXCEPT !.first_token = 0, !.i = i + 1]

\* one iteration of the while loop of run on the token t = tokens[i]
LinesToken(st, t) ==
    IF t.type \in {"item", "colon"}
    THEN [st EXCEPT !.first_token = IF @ = 0 THEN st.i ELSE @,
                    !.start_line = st.i, !.i = st.i + 1]
    ELSE IF t.type = "newline" /\ st.start_line # 0
    THEN [LineAppended(st, SubSeq(st.tokens, st.start_line + 1, st.i))
             EXCEPT !.i = st.i + 1]
    ELSE IF t.type = "break"
    THEN LinesBroken(st.i, IF st.start_line # 0
                           THEN LineAppended(st, SubSeq(st.tokens, st.start_line + 1, st.i - 1))
                           ELSE st)
    ELSE IF st.start_line = 0 /\ st.lines # <<>>
    THEN LinesPlaced(st, st.i)
    ELSE [st EXCEPT !.i = st.i + 1]

\* lines 554-567 after the loop has ended in st
LinesAfterLoop(st) ==
    LinesEnd(st, IF st.start_line # 0
                 THEN [LineAppended(st, LastLineBody(st.tokens, st.start_line))
                          EXCEPT !.last = <<[start_line |-> st.start_line,
                                             lines |-> st.lines,
                                             first_token |-> st.first_token]>>]
                 ELSE st)

\* run: st is [tokens, i, lines, start_line, first_token, raised, last], 0 standing
\* for None
RECURSIVE LinesRun(_)
LinesRun(st) ==
    IF st.raised THEN st
    ELSE IF st.i > Len(st.tokens) THEN LinesAfterLoop(st)
    ELSE LinesRun(LinesToken(st, st.tokens[st.i]))

\* the state of run before the first iteration
LinesStart(toks) ==
    [tokens |-> toks, i |-> 1, lines |-> <<>>, start_line |-> 0,
     first_token |-> 0, raised |-> FALSE, last |-> <<>>]

ParseLinesState(toks) == LinesRun(LinesStart(toks))

ParseLines(toks) == ParseLinesState(toks).tokens

(***************************************************************************)
(* ParseLines on every list of at most MaxLineTokens tokens: the markers   *)
(* of list items and definitions, newlines, breaks, text and the ":" that  *)
(* splits a definition.                                                    *)
(***************************************************************************)
MaxLineTokens == 4

LineAlphabet ==
    {PlainToken("item", <<"*">>), PlainToken("item", <<"*", "*">>),
     PlainToken("item", <<"#">>), PlainToken("item", <<";">>),
     PlainToken("colon", <<":">>), PlainToken("newline", <<"\n">>),
     PlainToken("break", <<"\n", "\n">>), PlainToken("text", <<"a">>),
     PlainToken("special", <<":">>)}

LineLists == UNION {[1..k -> LineAlphabet] : k \in 0..MaxLineTokens}

CallParseLines ==
    /\ fnpc = "call"
    /\ fnres' = [tokens |-> ParseLines(fnarg), raised |-> ParseLinesState(fnarg).raised]
    /\ fnpc' = "ret"
    /\ UNCHANGED <<fnarg, macroVars, pipeVars, cacheVars>>

InitLines ==
    /\ IdleMacro /\ IdlePipe /\ IdleCache
    /\ fnarg \in LineLists
    /\ fnres = <<>>
    /\ fnpc = "call"

NextLines == CallParseLines

SpecLines == InitLines /\ [][NextLines]_vars

\* the last marker that neither a newline nor a break follows before position
\* e, 0 if there is none: the marker of the line that is open before e
MarkerOf(toks, e) ==
    Max({m \in 1..(e - 1) :
            /\ toks[m].type \in {"item", "colon"}
            /\ \A j \in (m + 1)..(e - 1) : toks[j].type \notin {"newline", "break"}}
        \cup {0})

\* the marker of the line that is open when the list ends, 0 if no line is open
OpenLine(toks) == MarkerOf(toks, Len(toks) + 1)

\* the first marker from which no newline and no break comes up to the marker
\* at m: where the line of m was first opened
OpenedAt(toks, m) ==
    Min({f \in 1..m :
            /\ toks[f].type \in {"item", "colon"}
            /\ \A j \in (f + 1)..m : toks[j].type \notin {"newline", "break"}})

\* the prefixed lines that directly precede the line of the marker at q: each
\* is ended by a newline, and the next line is opened right after that newline
RECURSIVE PrecedingLines(_, _)
PrecedingLines(toks, q) ==
    LET e == OpenedAt(toks, q) - 1
    IN IF e >= 1
       THEN IF toks[e].type = "newline" /\ MarkerOf(toks, e) # 0
            THEN LET m == MarkerOf(toks, e)
                 IN Append(PrecedingLines(toks, m),
                           ComplexLine(SubSeq(toks, m + 1, e), Strip(toks[m].text)))
            ELSE <<>>
       ELSE <<>>

\* the open line, its body being every token after its marker
OpenLineToken(toks) ==
    ComplexLine(SubSeq(toks, OpenLine(toks) + 1, Len(toks)),
                Strip(toks[OpenLine(toks)].text))

\* C17: when a list ends while a prefixed line is open, ParseLines raises no
\* error and the list ends with the nodes that analyze makes of the directly
\* preceding prefixed lines and of the open line, whose body is every token
\* after its marker.
C17_OpenLineFinalized ==
    (fnpc = "ret" /\ OpenLine(fnarg) # 0) =>
        /\ ~fnres.raised
        /\ IsSuffix(analyze(Append(PrecedingLines(fnarg, OpenLine(fnarg)),
                                   OpenLineToken(fnarg))).lines,
                    fnres.tokens)

\* witness: an open second item joins the first item in one list of two items
C17_Witness ==
    /\ fnpc = "ret"
    /\ Len(fnarg) = 4
    /\ OpenLine(fnarg) = 3
    /\ Len(PrecedingLines(fnarg, 3)) = 1
    /\ Len(fnres.tokens) = 1
    /\ fnres.tokens[1].tagname = "ul"
    /\ Len(fnres.tokens[1].children) = 2
    /\ fnres.tokens[1].children[2].children[1].children = <<fnarg[4]>>

(***************************************************************************)
(* ParseLinks (core.py 618-763).  marks is the list of positions of the    *)
(* open bracket and of its "|" and "]]"; here it is a record that besides  *)
(* the list m carries, as a history value the code does not have, the      *)
(* marks that were current when its "[[" was met (outer, <<>> when there   *)
(* were none).  mwlib.nshandling is not in the repository: no target is    *)
(* an interwiki link, and splitname gives the main namespace and the       *)
(* target itself as the partial and the full name.                         *)
(***************************************************************************)
Box2Open == NewToken("2box_open", <<"[", "[">>, <<>>, <<>>)
Box2Close == NewToken("2box_close", <<"]", "]">>, <<>>, <<>>)
Pipe == NewToken("special", <<"|">>, <<>>, <<>>)

NoMarks == [m |-> <<>>, outer |-> <<>>]

\* Token.join_as_text(tokens)
RECURSIVE join_as_text(_)
join_as_text(toks) == IF toks = <<>> THEN <<>> ELSE Head(toks).text \o join_as_text(Tail(toks))

\* target.strip(chars)
StripChars(s, chars) ==
    LET keep == {j \in 1..Len(s) : s[j] \notin chars}
    IN IF keep = {} THEN <<>> ELSE SubSeq(s, Min(keep), Max(keep))

DirectionMarks == {"LRM", "RLM"}

\* process_colon_and_target(marks, start, tokens): [colon, target]
process_colon_and_target(m, start, toks) ==
    LET target == StripChars(Strip(join_as_text(SubSeq(toks, start + 1, m[2] - 1))),
                             DirectionMarks)
    IN IF target # <<>>
       THEN IF Head(target) = ":"
            THEN [colon |-> TRUE, target |-> Tail(target)]
            ELSE [colon |-> FALSE, target |-> target]
       ELSE [colon |-> FALSE, target |-> target]

\* nshandler.resolve_interwiki(target) is None
resolve_interwiki(target) == FALSE

\* nshandler.splitname(target)
splitname(target) == [ns |-> 0, partial |-> target, full |-> target]

\* process_sub(marks, node, ns, tokens), no target being an image
process_sub(m, toks) ==
    IF Len(m) > 2 THEN SubSeq(toks, m[2] + 1, m[Len(m)] - 1) ELSE <<>>

\* Token(type=t_complex_link, ...) with its children, target and colon
LinkToken(sub, target, colon) ==
    [type |-> "complex_link", text |-> <<>>, tagname |-> "", caption |-> <<>>,
     level |-> 0, children |-> sub, target |-> target, colon |-> colon]

\* a mutant of PoppedMarks: no marks are restored
PoppedMarksNone(stack_) == NoMarks

\* marks = stack.pop() if stack else []
PoppedMarks(stack_) == IF stack_ # <<>> THEN stack_[Len(stack_)] ELSE NoMarks
PoppedStack(stack_) == IF stack_ # <<>> THEN SubSeq(stack_, 1, Len(stack_) - 1) ELSE stack_

\* process_2box_close; st is [tokens, i, marks, stack, log, links], log recording
\* each close that made no link and links each close that made one
process_2box_close(st) ==
    LET m == Append(st.marks.m, st.i)
        start == m[1]
        ct == process_colon_and_target(m, start, st.tokens)
        ilink == resolve_interwiki(ct.target)
        partial == splitname(ct.target).partial
        after == [st EXCEPT !.i = st.i + 1,
                            !.marks = PoppedMarks(st.stack),
                            !.stack = PoppedStack(st.stack)]
        node == LinkToken(process_sub(m, st.tokens), ct.target, ct.colon)
    IN IF ~ilink /\ partial = <<>>
       THEN [after EXCEPT !.log =
                Append(@, [i |-> st.i, m |-> m, marks |-> st.marks, tokens |-> st.tokens,
                           after |-> [tokens |-> after.tokens, i |-> after.i,
                                      marks |-> after.marks]])]
       ELSE [st EXCEPT !.tokens = Splice(st.tokens, start, st.i + 1, node),
                       !.marks = PoppedMarks(st.stack),
                       !.stack = PoppedStack(st.stack),
                       !.i = start + 1,
                       !.links = Append(@, [start |-> start, i |-> st.i,
                                            tokens |-> st.tokens,
                                            after |-> Splice(st.tokens, start, st.i + 1,
                                                             node)])]

process_special(st) ==
    [st EXCEPT !.marks.m = Append(@, st.i), !.i = st.i + 1]

process_newline(st) ==
    [st EXCEPT !.marks = PoppedMarks(st.stack), !.stack = PoppedStack(st.stack),
               !.i = st.i + 1]

process_2box_open(st) ==
    [st EXCEPT !.stack = IF Len(st.marks.m) > 1 THEN Append(@, st.marks) ELSE @,
               !.marks = [m |-> <<st.i>>,
                          outer |-> IF st.marks.m # <<>> THEN <<st.marks>> ELSE <<>>],
               !.i = st.i + 1]

RECURSIVE LinksRun(_)
LinksRun(st) ==
    IF st.i > Len(st.tokens) THEN st
    ELSE LET t == st.tokens[st.i]
         IN IF t.type = "2box_open" THEN LinksRun(process_2box_open(st))
            ELSE IF t.type = "newline" /\ Len(st.marks.m) < 2
            THEN LinksRun(process_newline(st))
            ELSE IF t.type = "special" /\ t.text = <<"|">> THEN LinksRun(process_special(st))
            ELSE IF t.type = "2box_close" /\ st.marks.m # <<>>
            THEN LinksRun(process_2box_close(st))
            ELSE LinksRun([st EXCEPT !.i = st.i + 1])

ParseLinksState(toks) ==
    LinksRun([tokens |-> toks, i |-> 1, marks |-> NoMarks, stack |-> <<>>, log |-> <<>>,
              links |-> <<>>])

ParseLinks(toks) == ParseLinksState(toks).tokens

(***************************************************************************)
(* ParseLinks on every list of at most MaxLinkTokens tokens.               *)
(***************************************************************************)
MaxLinkTokens == 5

LinkAlphabet ==
    {Box2Open, Box2Close, Pipe, Newline, TextToken(<<"a">>), TextToken(<<" ">>),
     NewToken("special", <<":">>, <<>>, <<>>)}

LinkLists == UNION {[1..k -> LinkAlphabet] : k \in 0..MaxLinkTokens}

CallParseLinks ==
    /\ fnpc = "call"
    /\ fnres' = [tokens |-> ParseLinks(fnarg), log |-> ParseLinksState(fnarg).log,
                 links |-> ParseLinksState(fnarg).links]
    /\ fnpc' = "ret"
    /\ UNCHANGED <<fnarg, macroVars, pipeVars, cacheVars>>

InitLinks ==
    /\ IdleMacro /\ IdlePipe /\ IdleCache
    /\ fnarg \in LinkLists
    /\ fnres = <<>>
    /\ fnpc = "call"

NextLinks == CallParseLinks

SpecLinks == InitLinks /\ [][NextLinks]_vars

\* the closes of a "[[" whose target is empty: the text between the "[[" and
\* the first "|" or the "]]", stripped and without one leading colon
EmptyTargetCloses ==
    {k \in 1..Len(fnres.log) :
        LET ev == fnres.log[k]
            text == Strip(join_as_text(SubSeq(ev.tokens, ev.m[1] + 1, ev.m[2] - 1)))
        IN /\ ev.tokens[ev.m[1]].type = "2box_open"
           /\ text \in {<<>>, <<":">>}}

\* no link made, every token in place, scanning goes on after the "]]"
LeftLiteral(ev) ==
    /\ ev.after.tokens = ev.tokens
    /\ ev.after.i = ev.i + 1

\* the marks of the bracket inside which the "[[" of these marks was met
EnclosingBracket(marks, toks) ==
    IF marks.outer # <<>>
    THEN IF toks[marks.outer[1].m[1]].type = "2box_open" THEN marks.outer[1] ELSE NoMarks
    ELSE NoMarks

\* the nearest marks around these that had a "|" when a "[[" was met inside them
RECURSIVE NearestPiped(_)
NearestPiped(marks) ==
    IF marks.outer = <<>> THEN NoMarks
    ELSE IF Len(marks.outer[1].m) > 1 THEN marks.outer[1]
    ELSE NearestPiped(marks.outer[1])

MaxForestTokens == 4

WithIds(toks) ==
    [j \in 1..Len(toks) |-> [f \in DOMAIN toks[j] \cup {"id"} |->
                                IF f = "id" THEN j ELSE toks[j][f]]]

FlatLists(alphabet) == UNION {[1..k -> alphabet] : k \in 0..MaxForestTokens}

ForestInputsOf(pass, alphabet) ==
    {[pass |-> pass, tokens |-> WithIds(toks)] : toks \in FlatLists(alphabet)}

ForestCall(pass, res) ==
    /\ fnpc = "call"
    /\ fnarg.pass = pass
    /\ fnres' = res
    /\ fnpc' = "ret"
    /\ UNCHANGED <<fnarg, macroVars, pipeVars, cacheVars>>

ForestSections == ForestCall("ParseSections", ParseSections(fnarg.tokens))
ForestLinks == ForestCall("ParseLinks", ParseLinks(fnarg.tokens))
ForestSingleQuote == ForestCall("ParseSingleQuote", ParseSingleQuote(fnarg.tokens).tokens)
ForestLines == ForestCall("ParseLines", ParseLines(fnarg.tokens))
ForestPreformatted == ForestCall("ParsePreformatted", ParsePreformatted(fnarg.tokens))

InitForest ==
    /\ IdleMacro /\ IdlePipe /\ IdleCache
    /\ \/ fnarg \in ForestInputsOf("ParseSections", SectionAlphabet)
       \/ fnarg \in ForestInputsOf("ParseLinks", LinkAlphabet)
       \/ fnarg \in ForestInputsOf("ParseSingleQuote", QuoteAlphabet)
       \/ fnarg \in ForestInputsOf("ParseLines", LineAlphabet)
       \/ fnarg \in ForestInputsOf("ParsePreformatted", PreAlphabet)
    /\ fnres = <<>>
    /\ fnpc = "call"

NextForest ==
    \/ ForestSections
    \/ ForestLinks
    \/ ForestSingleQuote
    \/ ForestLines
    \/ ForestPreformatted

SpecForest == InitForest /\ [][NextForest]_vars

\* the ids of the tokens of a tree, one entry for each place a token is in
RECURSIVE IdsIn(_)
IdsIn(toks) ==
    IF toks = <<>> THEN <<>>
    ELSE (IF "id" \in DOMAIN Head(toks) THEN <<Head(toks).id>> ELSE <<>>)
         \o IdsIn(Head(toks).children) \o IdsIn(Tail(toks))

NoTokenTwice(toks) ==
    LET ids == IdsIn(toks)
    IN \A a, b \in 1..Len(ids) : ids[a] = ids[b] => a = b

\* C19: after a pass on a flat token list every token is at one place of the
\* tree at most, in the root list or in the child list of one node; a tree
\* that can be walked to its end with no token met twice has no node below
\* itself either.
C19_Forest == fnpc = "ret" => NoTokenTwice(fnres)

(***************************************************************************)
(* parse_txt (core.py 1231-1304) called again and again, with a new        *)
(* options object or with one a caller keeps.  A text is a sequence of     *)
(* pieces, each of which the tokenizer makes one token of.  mwlib.uniq is  *)
(* not in the repository: replace_tags puts a placeholder in the place of  *)
(* each <nowiki>...</nowiki> and remembers what it stood for, as the       *)
(* glossary describes the placeholder token.  Of the passes, ParseUniq     *)
(* and ParseSingleQuote are run, the ones that act on these tokens.        *)
(***************************************************************************)
MaxParses == 2

NowikiOpen == "<nowiki>"
NowikiClose == "</nowiki>"

\* what uniquifier.uniq2repl keeps for one placeholder
UniqMatch(inner) == [tagname |-> "nowiki", inner |-> inner, vlist |-> <<>>]
Placeholders == <<"UNIQ-1", "UNIQ-2", "UNIQ-3">>
Placeholder(key) == Placeholders[key]
IsPlaceholder(piece) == \E key \in 1..Len(Placeholders) : Placeholders[key] = piece

\* the first closing tag after position a, 0 if there is none
ClosingAfter(txt, a) ==
    Min({b \in (a + 1)..Len(txt) : txt[b] = NowikiClose} \cup {Len(txt) + 1})

\* uniquifier.replace_tags(txt) from piece a on: [txt, uniq2repl]
RECURSIVE replace_tags(_, _, _)
replace_tags(uniq2repl, txt, a) ==
    IF a > Len(txt) THEN [txt |-> txt, uniq2repl |-> uniq2repl]
    ELSE IF txt[a] = NowikiOpen /\ ClosingAfter(txt, a) <= Len(txt)
    THEN LET b == ClosingAfter(txt, a)
         IN replace_tags(Append(uniq2repl, UniqMatch(SubSeq(txt, a + 1, b - 1))),
                         SubSeq(txt, 1, a - 1) \o <<Placeholder(Len(uniq2repl) + 1)>>
                             \o SubSeq(txt, b + 1, Len(txt)),
                         a + 1)
    ELSE replace_tags(uniq2repl, txt, a + 1)

\* tokenize(txt, uniquifier): a placeholder is a t_uniq token, '' a run of two
\* apostrophes, and a tag that is not among allowed_tags a text token
TokenOf(piece) ==
    IF IsPlaceholder(piece) THEN NewToken("uniq", <<piece>>, <<>>, <<>>)
    ELSE IF piece = "''" THEN Singlequote(2)
    ELSE IF piece = "\n" THEN Newline
    ELSE TextToken(<<piece>>)
tokenize(txt) == [j \in 1..Len(txt) |-> TokenOf(txt[j])]

\* util.replace_html_entities(txt), for the entity the model uses
replace_html_entities(txt) == [j \in 1..Len(txt) |-> IF txt[j] = "&amp;" THEN "&" ELSE txt[j]]

\* create_nowiki(name, vlist, inner, xopts)
create_nowiki(inner) == TextToken(replace_html_entities(inner))

\* ParseUniq(tokens, xopts), uniquifier being <<>> for None and <<uniq2repl>> else
ParseUniq(toks, uniquifier) ==
    IF uniquifier = <<>> THEN toks
    ELSE [j \in 1..Len(toks) |->
             IF toks[j].type = "uniq"
             THEN IF \E key \in 1..Len(uniquifier[1]) : Placeholder(key) = toks[j].text[1]
                  THEN create_nowiki(
                           uniquifier[1][CHOOSE key \in 1..Len(uniquifier[1]) :
                                            Placeholder(key) = toks[j].text[1]].inner)
                  ELSE toks[j]
             ELSE toks[j]]

\* a mutant of UniquifierOf: a uniquifier of their own for every call
UniquifierFresh(xo) == <<>>

\* uniquifier = xopts.uniquifier
UniquifierOf(xo) == xo.uniquifier

\* parse_txt(txt, xopts): the tokens returned and the options object after the call
parse_txt(txt, xo) ==
    LET uniquifier == UniquifierOf(xo)
        replaced == replace_tags(<<>>, txt, 1)
        text == IF uniquifier = <<>> THEN replaced.txt ELSE txt
        used == IF uniquifier = <<>> THEN <<replaced.uniq2repl>> ELSE uniquifier
        after == [xo EXCEPT !.uniquifier = used]
    IN [tokens |-> ParseSingleQuote(ParseUniq(tokenize(text), after.uniquifier)).tokens,
        xopts |-> after]

\* the texts a, ''a'', <nowiki>''a''</nowiki>, <nowiki>&amp;</nowiki> and
\* ''<nowiki>a</nowiki>''
ParseTexts ==
    {<<"a">>, <<"''", "a", "''">>,
     <<NowikiOpen, "''", "a", "''", NowikiClose>>,
     <<NowikiOpen, "&amp;", NowikiClose>>,
     <<"''", NowikiOpen, "a", NowikiClose, "''">>}

\* parse_txt(txt): xopts is None and a new XBunch is made
ParseTxtNew ==
    /\ Len(calls) < MaxParses
    /\ \E txt \in ParseTexts :
           calls' = Append(calls, [txt |-> txt, xopts |-> "",
                                   ret |-> parse_txt(txt, XBunch).tokens])
    /\ UNCHANGED <<cache, xopts, macroVars, fnVars, pipeVars>>

\* parse_txt(txt, o) with an options object o that the caller keeps
ParseTxtWith ==
    /\ Len(calls) < MaxParses
    /\ \E txt \in ParseTexts, o \in OptionObjects :
           LET r == parse_txt(txt, xopts[o])
           IN /\ calls' = Append(calls, [txt |-> txt, xopts |-> o, ret |-> r.tokens])
              /\ xopts' = [xopts EXCEPT ![o] = r.xopts]
    /\ UNCHANGED <<cache, macroVars, fnVars, pipeVars>>

InitParseTxt == IdleMacro /\ IdleFn /\ IdlePipe /\ IdleCache

NextParseTxt == ParseTxtNew \/ ParseTxtWith

SpecParseTxt == InitParseTxt /\ [][NextParseTxt]_vars

\* C20: whatever calls came before, and whatever options object they were
\* given, parse_txt returns the tree that it returns for the same text as
\* the first call with new options.
C20_CallsIndependent ==
    \A k \in 1..Len(calls) : calls[k].ret = parse_txt(calls[k].txt, XBunch).tokens

(***************************************************************************)
(* Termination: the loops of Parser.parse and parse_open_brace, of         *)
(* ParseLines.run and of ParsePreformatted.run, one iteration a step.  The *)
(* program is sequential and never waits, so a loop that can take its next *)
(* iteration takes it: weak fairness of the next-state relation.           *)
(***************************************************************************)
MaxRunTokens == 3

\* ParseLines.run at its loop head; resets: an iteration has moved i backwards
LinesAt(st, resets) == [st |-> st, resets |-> resets]

\* ParsePreformatted.run at its loop head
PreformattedAt(toks, i, start, resets) ==
    [st |-> [tokens |-> toks, i |-> i, start |-> start], resets |-> resets]

InitTermination ==
    \/ /\ tokens \in Streams(Alphabet, MaxRunTokens)
       /\ pos = 1 /\ stack = <<>> /\ n = <<>> /\ pc = "parse"
       /\ result = Tuple(<<>>) /\ siteinfo = SiteEn /\ closes = <<>>
       /\ IdleFn /\ IdlePipe /\ IdleCache
    \/ /\ fnarg \in UNION {[1..k -> LineAlphabet] : k \in 0..MaxRunTokens}
       /\ fnres = LinesAt(LinesStart(fnarg), FALSE)
       /\ fnpc = "lines"
       /\ IdleMacro /\ IdlePipe /\ IdleCache
    \/ /\ fnarg \in UNION {[1..k -> PreAlphabet] : k \in 0..MaxRunTokens + 1}
       /\ fnres = PreformattedAt(fnarg, 1, 0, FALSE)
       /\ fnpc = "pre"
       /\ IdleMacro /\ IdlePipe /\ IdleCache

\* the index after an iteration did not move forward
MovedBack(before, after) == after.i <= before.i

\* one iteration of the while loop of ParseLines.run
LinesIterate ==
    /\ fnpc = "lines"
    /\ ~fnres.st.raised
    /\ fnres.st.i <= Len(fnres.st.tokens)
    /\ LET after == LinesToken(fnres.st, fnres.st.tokens[fnres.st.i])
       IN fnres' = LinesAt(after, fnres.resets \/ MovedBack(fnres.st, after))
    /\ UNCHANGED <<fnarg, fnpc, macroVars, pipeVars, cacheVars>>

\* the loop of ParseLines.run is left: analyze raised, or i reached the end
LinesFinish ==
    /\ fnpc = "lines"
    /\ fnres.st.raised \/ fnres.st.i > Len(fnres.st.tokens)
    /\ fnres' = LinesAt(IF fnres.st.raised THEN fnres.st ELSE LinesAfterLoop(fnres.st),
                        fnres.resets)
    /\ fnpc' = "ret"
    /\ UNCHANGED <<fnarg, macroVars, pipeVars, cacheVars>>

\* one iteration of the while loop of ParsePreformatted.run
PreformattedIterate ==
    /\ fnpc = "pre"
    /\ fnres.st.i <= Len(fnres.st.tokens)
    /\ LET after == PreformattedStep(fnres.st.tokens, fnres.st.i, fnres.st.start)
       IN fnres' = PreformattedAt(after.tokens, after.i, after.start,
                                  fnres.resets \/ MovedBack(fnres.st, after))
    /\ UNCHANGED <<fnarg, fnpc, macroVars, pipeVars, cacheVars>>

\* the loop of ParsePreformatted.run is left
PreformattedFinish ==
    /\ fnpc = "pre"
    /\ fnres.st.i > Len(fnres.st.tokens)
    /\ fnpc' = "ret"
    /\ UNCHANGED <<fnarg, fnres, macroVars, pipeVars, cacheVars>>

NextTermination ==
    \/ CallOpenBrace
    \/ ParseFinish
    \/ SkipNoinclude
    \/ ParseText
    \/ BraceEnd
    \/ BraceClose
    \/ BraceText
    \/ BraceReturn
    \/ LinesIterate
    \/ LinesFinish
    \/ PreformattedIterate
    \/ PreformattedFinish

\* the macro parser or ParseLines.run is inside its call; there the next
\* iteration, or the code that leaves the loop, can always run and changes
\* the state (StepEnabled)
Stepping == pc \notin {"idle", "done", "raised"} \/ fnpc = "lines"

\* weak fairness of every step.  For the macro parser and ParseLines.run it
\* is written out, WF_vars(A) being []<>~ENABLED <<A>>_vars \/ []<><<A>>_vars:
\* their steps are enabled exactly in the states of Stepping, and a step
\* that NextTermination allows from such a state is one of theirs.
SpecTermination ==
    /\ InitTermination
    /\ [][NextTermination]_vars
    /\ WF_vars(PreformattedIterate \/ PreformattedFinish)
    /\ ([]<>~Stepping \/ []<><<Stepping>>_vars)

\* the call has returned or raised
RunReturned == pc \in {"done", "raised"} \/ fnpc = "ret"

\* in a state of Stepping the next step exists and changes the state
StepEnabled ==
    /\ pc \notin {"idle", "done", "raised"} => StepOf(M) # M
    /\ fnpc = "lines" =>
          IF fnres.st.raised \/ fnres.st.i > Len(fnres.st.tokens) THEN TRUE
          ELSE LinesToken(fnres.st, fnres.st.tokens[fnres.st.i]) # fnres.st

C21_SameResult ==
    /\ (fnpc = "ret" /\ pc = "idle" /\ "raised" \in DOMAIN fnres.st)
          => fnres.st.tokens = ParseLines(fnarg)
    /\ (fnpc = "ret" /\ pc = "idle" /\ "raised" \notin DOMAIN fnres.st)
          => fnres.st.tokens = ParsePreformatted(fnarg)

MaxCondChildren == 3

CondPrefixes ==
    {Str(<<"#", "i", "f", ":">>), Str(<<"#", "i", "f", ":", " ">>),
     Str(<<"#", "i", "f", ":", "a", " ">>),
     Str(<<"#", "s", "w", "i", "t", "c", "h", ":">>),
     Str(<<"#", "s", "w", "i", "t", "c", "h", ":", " ", "a">>)}

CondPool ==
    {Str(<<" ">>), Str(<<"a">>), Str(<<" ", "a", " ">>), T_pipe, T_eq, InnerTemplate}

CallIfSwitch ==
    /\ fnpc = "call"
    /\ fnres' = template_from_children(siteinfo, fnarg.c)
    /\ fnpc' = "ret"
    /\ UNCHANGED <<fnarg, macroVars, pipeVars, cacheVars>>

InitIfSwitch ==
    /\ fnarg \in {List(<<first>> \o rest) :
                     first \in CondPrefixes,
                     rest \in UNION {[1..len -> CondPool] : len \in 0..MaxCondChildren}}
    /\ fnres = Tuple(<<>>) /\ fnpc = "call"
    /\ IdleMacro /\ IdlePipe /\ IdleCache

NextIfSwitch == CallIfSwitch

SpecIfSwitch == InitIfSwitch /\ [][NextIfSwitch]_vars

\* a fragment that is text without a character other than whitespace
WsOnly(f) == IsString(f) /\ Strip(f.s) = <<>>

\* argument 0 as the claim trims it
TrimmedCond(a0) ==
    IF IsString(a0) THEN Str(Strip(a0.s))
    ELSE LET lo == IF a0.c # <<>> /\ WsOnly(a0.c[1]) THEN 2 ELSE 1
             hi == IF a0.c # <<>> /\ WsOnly(a0.c[Len(a0.c)]) THEN Len(a0.c) - 1
                   ELSE Len(a0.c)
         IN Tuple(SubSeq(a0.c, lo, hi))

\* the arguments of the invocation before any trimming: the children after
\* the prefix, split at the | at link depth 0
UntrimmedArgs(children) == ExpectedArgs(DropPrefix(children), TRUE)

MaxLeafDepth == 2

AdvNode(cls, children) == [cls |-> cls, children |-> children]

\* the return value None, no path holding the index 0
NoLeaf == <<0>>

\* the path p of a node below child i
Under(i, p) == IF p = NoLeaf THEN NoLeaf ELSE <<i>> \o p

RECURSIVE get_first_leaf(_, _)
get_first_leaf(node, callerIsSelf) ==
    IF node.children # <<>>
    THEN IF node.cls = "Section"
         THEN IF Len(node.children) = 1 THEN NoLeaf
              ELSE Under(2, get_first_leaf(node.children[2], FALSE))
         ELSE Under(1, get_first_leaf(node.children[1], FALSE))
    ELSE IF callerIsSelf THEN NoLeaf ELSE <<>>

get_last_leaf(node, callerIsSelf) ==
    IF node.children # <<>>
    THEN Under(Len(node.children),
               get_first_leaf(node.children[Len(node.children)], FALSE))
    ELSE IF callerIsSelf THEN NoLeaf ELSE <<>>

\* the trees of at most depth levels below the root, a node having up to
\* two children
RECURSIVE AdvTrees(_)
AdvTrees(depth) ==
    IF depth = 0 THEN {AdvNode(cls, <<>>) : cls \in {"Node", "Section"}}
    ELSE {AdvNode(cls, children) :
             cls \in {"Node", "Section"},
             children \in UNION {[1..k -> AdvTrees(depth - 1)] : k \in 0..2}}

CallGetLastLeaf ==
    /\ fnpc = "call"
    /\ fnres' = get_last_leaf(fnarg, TRUE)
    /\ fnpc' = "ret"
    /\ UNCHANGED <<fnarg, macroVars, pipeVars, cacheVars>>

InitLeaf ==
    /\ fnarg \in AdvTrees(MaxLeafDepth)
    /\ fnres = NoLeaf /\ fnpc = "call"
    /\ IdleMacro /\ IdlePipe /\ IdleCache

NextLeaf == CallGetLastLeaf

SpecLeaf == InitLeaf /\ [][NextLeaf]_vars

\* the node reached from node by descending into the last child until a node
\* without children is reached
RECURSIVE LastLeaf(_)
LastLeaf(node) ==
    IF node.children = <<>> THEN <<>>
    ELSE <<Len(node.children)>> \o LastLeaf(node.children[Len(node.children)])

\* C23: get_last_leaf returns the node reached by descending into the last
\* child until a node without children is reached, and None for a node
\* without children.
C23_LastLeaf ==
    fnpc = "ret" =>
        fnres = IF fnarg.children = <<>> THEN NoLeaf ELSE LastLeaf(fnarg)

(***************************************************************************)
(* The captions ParseSections builds, under SpecSections                   *)
(***************************************************************************)
\* the sections of a list of tokens in document order, a section standing in
\* front of the sections among its children
RECURSIVE SectionsIn(_)
SectionsIn(toks) ==
    IF toks = <<>> THEN <<>>
    ELSE (IF toks[1].type = "complex_section"
          THEN <<toks[1]>> \o SectionsIn(SubSeq(toks[1].children, 3, Len(toks[1].children)))
          ELSE <<>>)
         \o SectionsIn(Tail(toks))

\* the caption the claim describes for the markers at start and endtitle
ClaimedCaption(toks, start, endtitle) ==
    LET l1 == Count(toks[start].text, "=")
        l2 == Count(toks[endtitle].text, "=")
        between == SubSeq(toks, start + 1, endtitle - 1)
        surplus == TextToken([k \in 1..(IF l1 > l2 THEN l1 - l2 ELSE l2 - l1) |-> "="])
    IN IF l1 = l2 THEN between
       ELSE IF l1 > l2 THEN <<surplus>> \o between
       ELSE between \o <<surplus>>

\* C24: a section whose markers have the lengths l1 and l2 has the level
\* min(l1, l2); the |l1 - l2| surplus = characters are the first child of
\* its caption when the opening marker is the longer one and the last child
\* when the closing marker is; with l1 = l2 the caption holds exactly the
\* tokens between the markers.
C24_CaptionSurplus ==
    (fnpc = "ret" /\ AlternatesProperly(fnarg)) =>
        LET secs == SectionsIn(fnres)
            starts == HeadingStarts(fnarg)
            ends == HeadingEnds(fnarg)
        IN /\ Len(secs) = Len(ends)
           /\ \A j \in 1..Len(ends) :
                  /\ secs[j].level = Min({Count(fnarg[starts[j]].text, "="),
                                          Count(fnarg[ends[j]].text, "=")})
                  /\ secs[j].children[1].children
                        = ClaimedCaption(fnarg, starts[j], ends[j])

\* C24 witness: ==a= gives a section of level 1 with the caption =, a; a
\* heading =a== one with the caption a, =
C24_Witness ==
    /\ fnpc = "ret"
    /\ \/ /\ fnarg = <<SectionStart(<<"=", "=">>), TextToken(<<"a">>), SectionEnd(<<"=">>)>>
          /\ fnres[1].level = 1
          /\ fnres[1].children[1].children = <<TextToken(<<"=">>), TextToken(<<"a">>)>>
       \/ /\ fnarg = <<SectionStart(<<"=">>), TextToken(<<"a">>), SectionEnd(<<"=", "=">>)>>
          /\ fnres[1].level = 1
          /\ fnres[1].children[1].children = <<TextToken(<<"a">>), TextToken(<<"=">>)>>

(***************************************************************************)
(* The lines of ParseSingleQuote, under SpecQuote                          *)
(***************************************************************************)
\* a run of apostrophes is among the tokens or below one of them
RECURSIVE HasRun(_)
HasRun(toks) ==
    \E i \in 1..Len(toks) :
        toks[i].type = "singlequote" \/ HasRun(toks[i].children)

\* C25: each line is handled on its own.  For a line with n runs of
\* apostrophes the quote engine gets exactly the n run lengths in order and
\* n spans are made, span k holding the tokens after run k up to run k + 1,
\* the newline or the end of the list; the next line starts without counts;
\* so the length check of finish never fails, and no run of apostrophes is
\* left after the pass.
C25_LinesSeparate ==
    fnpc = "ret" =>
        /\ ~fnres.raised
        /\ ~HasRun(fnres.tokens)
        /\ Len(fnres.log) = Cardinality({q \in 1..Len(fnarg) : IsRun(fnarg, q)})
        /\ \A q \in 1..Len(fnarg) :
               IsRun(fnarg, q) =>
                   LET entry == fnres.log[RunIndex(fnarg, q)]
                   IN /\ entry.counts = LineCounts(fnarg, q)
                      /\ entry.count = Len(fnarg[q].text)
                      /\ entry.spans = Cardinality(RunsOnLine(fnarg, q))
                      /\ entry.before =
                             NewToken("complex_style", <<>>, <<>>, SpanBody(fnarg, q))

\* C25 witness: a run on the first line and a run on the second, which the
\* engine gets alone
C25_Witness ==
    /\ fnpc = "ret"
    /\ Len(fnarg) = 3
    /\ IsRun(fnarg, 1) /\ fnarg[2].type = "newline" /\ IsRun(fnarg, 3)
    /\ fnres.log[1].counts = <<Len(fnarg[1].text)>>
    /\ fnres.log[2].counts = <<Len(fnarg[3].text)>>

(***************************************************************************)
(* ParseLines.analyze on a run of prefixed lines: up to MaxAnalyzedLines   *)
(* lines, each with a prefix of one of the characters * # : ; or of one of *)
(* them and one of * : ; and with one text token, which names the line,   *)
(* as content.                                                             *)
(***************************************************************************)
MaxAnalyzedLines == 3

LineNames == <<"1", "2", "3", "4", "5">>

PrefixStrings ==
    {<<c>> : c \in KnownPrefixes} \cup {<<c, e>> : c \in KnownPrefixes, e \in {"*", ":", ";"}}

\* the line j of a run with the prefixes given
PrefixedLine(j, lineprefix) ==
    ComplexLine(<<PlainToken("text", <<LineNames[j]>>)>>, lineprefix)

CallAnalyze ==
    /\ fnpc = "call"
    /\ fnres' = analyze(fnarg)
    /\ fnpc' = "ret"
    /\ UNCHANGED <<fnarg, macroVars, pipeVars, cacheVars>>

InitAnalyze ==
    /\ fnarg \in {[j \in 1..Len(prefixes) |-> PrefixedLine(j, prefixes[j])] :
                     prefixes \in UNION {[1..count -> PrefixStrings] :
                                            count \in 1..MaxAnalyzedLines}}
    /\ fnres = [lines |-> <<>>, raised |-> FALSE] /\ fnpc = "call"
    /\ IdleMacro /\ IdlePipe /\ IdleCache

NextAnalyze == CallAnalyze

SpecAnalyze == InitAnalyze /\ [][NextAnalyze]_vars

\* the text token txt is tok or lies below it
RECURSIVE HoldsText(_, _)
HoldsText(tok, txt) ==
    (tok.type = "text" /\ tok.text = txt)
    \/ \E i \in 1..Len(tok.children) : HoldsText(tok.children[i], txt)

\* the tokens from one of toks down to the text token txt, outermost first
RECURSIVE NodesDownTo(_, _)
NodesDownTo(toks, txt) ==
    LET hits == {i \in 1..Len(toks) : HoldsText(toks[i], txt)}
        i == CHOOSE h \in hits : TRUE
    IN IF hits = {} THEN <<>>
       ELSE IF toks[i].type = "text" THEN <<[at |-> i, tok |-> toks[i]]>>
       ELSE <<[at |-> i, tok |-> toks[i]]>> \o NodesDownTo(toks[i].children, txt)

\* the prefix character a container node stands for, "" for any other token
ContainerChar(tok) ==
    IF tok.type = "complex_tag" /\ tok.tagname = "ul" THEN "*"
    ELSE IF tok.type = "complex_tag" /\ tok.tagname = "ol" THEN "#"
    ELSE IF tok.type = "complex_style" /\ tok.caption \in {<<":">>, <<";">>}
    THEN tok.caption[1]
    ELSE ""

\* the positions in down of the container nodes
ContainersOn(down) == Ascending({p \in 1..Len(down) : ContainerChar(down[p].tok) # ""})

\* the place in the result of the container at depth d above the line named
\* txt: the child indices from the top list down to it
ContainerPlace(toks, txt, d) ==
    LET down == NodesDownTo(toks, txt)
    IN [p \in 1..ContainersOn(down)[d] |-> down[p].at]

\* the content of line j lies inside exactly the containers its prefix names,
\* outermost first
NestedByPrefix(j) ==
    LET down == NodesDownTo(fnres.lines, <<LineNames[j]>>)
        on == ContainersOn(down)
    IN /\ down # <<>>
       /\ [d \in 1..Len(on) |-> ContainerChar(down[on[d]].tok)] = fnarg[j].lineprefix

\* a token of kind line is among toks or below them
RECURSIVE HasLine(_)
HasLine(toks) ==
    \E i \in 1..Len(toks) : toks[i].type = "complex_line" \/ HasLine(toks[i].children)

\* the lines j and j + 1 have the same prefix characters down to depth d
SamePrefixTo(j, d) ==
    /\ d <= Len(fnarg[j].lineprefix) /\ d <= Len(fnarg[j + 1].lineprefix)
    /\ SubSeq(fnarg[j].lineprefix, 1, d) = SubSeq(fnarg[j + 1].lineprefix, 1, d)

SharedAt(j, d) ==
    ContainerPlace(fnres.lines, <<LineNames[j]>>, d)
        = ContainerPlace(fnres.lines, <<LineNames[j + 1]>>, d)

C27_LinksBracketed ==
    fnpc = "ret" =>
        /\ \A k \in 1..Len(fnres.links) :
               LET ev == fnres.links[k]
               IN /\ ev.tokens[ev.start].type = "2box_open"
                  /\ ev.tokens[ev.i].type = "2box_close"
                  /\ SubSeq(ev.after, 1, ev.start - 1) = SubSeq(ev.tokens, 1, ev.start - 1)
                  /\ ev.after[ev.start].type = "complex_link"
                  /\ SubSeq(ev.after, ev.start + 1, Len(ev.after))
                        = SubSeq(ev.tokens, ev.i + 1, Len(ev.tokens))
        /\ (\A p \in 1..Len(fnarg) : fnarg[p].type # "2box_open") => fnres.tokens = fnarg

(***************************************************************************)
(* fix_li_tags and process_li_tokens (core.py 1198-1225) on every list of  *)
(* up to MaxLiTokens tokens: li tokens, texts, and div and ul nodes with   *)
(* two children.                                                           *)
(***************************************************************************)
MaxLiTokens == 3

\* Token(type=t_complex_tag, tagname=..., children=...)
TagToken(tagname, children) ==
    [NewToken("complex_tag", <<>>, <<>>, children) EXCEPT !.tagname = tagname]

\* the first position from idx on whose token is not tagged li
LiRunEnd(toks, idx) ==
    Min({p \in idx..Len(toks) : toks[p].tagname # "li"} \cup {Len(toks) + 1})

\* the loop of process_li_tokens from idx on, 1-based
RECURSIVE ProcessLiFrom(_, _)
ProcessLiFrom(toks, idx) ==
    IF idx > Len(toks) THEN toks
    ELSE LET stop == LiRunEnd(toks, idx)
         IN IF stop > idx
            THEN ProcessLiFrom(SubSeq(toks, 1, idx - 1)
                                   \o <<TagToken("ul", SubSeq(toks, idx, stop - 1))>>
                                   \o SubSeq(toks, stop + 1, Len(toks)),
                               idx + 1)
            ELSE ProcessLiFrom(toks, idx + 1)

process_li_tokens(toks) == ProcessLiFrom(toks, 1)

\* fix_li_tags for the list toks of the children of a token tagged parent
RECURSIVE FixLiBelow(_, _)
FixLiBelow(parent, toks) ==
    LET here == IF parent \notin {"ol", "ul"} THEN process_li_tokens(toks) ELSE toks
    IN [p \in 1..Len(here) |->
           [here[p] EXCEPT !.children = FixLiBelow(here[p].tagname, here[p].children)]]

\* root = Token(type=t_complex_tag, tagname="div")
fix_li_tags(toks) == FixLiBelow("div", toks)

LiLeaves == {TagToken("li", <<>>), TextToken(<<"a">>), TextToken(<<"b">>)}

LiAlphabet ==
    LiLeaves
    \cup {TagToken(tagname, <<x, y>>) :
             tagname \in {"div", "ul"},
             x \in {TagToken("li", <<>>), TextToken(<<"a">>)},
             y \in {TagToken("li", <<>>), TextToken(<<"a">>)}}

CallFixLiTags ==
    /\ fnpc = "call"
    /\ fnres' = fix_li_tags(fnarg)
    /\ fnpc' = "ret"
    /\ UNCHANGED <<fnarg, macroVars, pipeVars, cacheVars>>

InitLi ==
    /\ fnarg \in UNION {[1..k -> LiAlphabet] : k \in 0..MaxLiTokens}
    /\ fnres = <<>> /\ fnpc = "call"
    /\ IdleMacro /\ IdlePipe /\ IdleCache

NextLi == CallFixLiTags

SpecLi == InitLi /\ [][NextLi]_vars

\* a list with each maximal run of li tokens replaced by one ul node that
\* holds the run, every other token staying where it is
RECURSIVE Regrouped(_)
Regrouped(toks) ==
    IF toks = <<>> THEN <<>>
    ELSE LET stop == LiRunEnd(toks, 1)
         IN IF stop > 1
            THEN <<TagToken("ul", SubSeq(toks, 1, stop - 1))>>
                 \o Regrouped(SubSeq(toks, stop, Len(toks)))
            ELSE <<toks[1]>> \o Regrouped(Tail(toks))

\* the tree the claim describes
RECURSIVE RegroupedBelow(_, _)
RegroupedBelow(parent, toks) ==
    LET here == IF parent \notin {"ol", "ul"} THEN Regrouped(toks) ELSE toks
    IN [p \in 1..Len(here) |->
           [here[p] EXCEPT !.children = RegroupedBelow(here[p].tagname, here[p].children)]]

\* C28: fix_li_tags only regroups: in every list whose parent is not an ol
\* or ul each maximal run of li tokens becomes one new ul node holding the
\* run, every other token, the one directly after the run too, stays in its
\* place; the lists below an ol or ul are left as they are.
C28_OnlyRegroups == fnpc = "ret" => fnres = RegroupedBelow("div", fnarg)

(***************************************************************************)
(* mark_style_tags (core.py 847-938) on every list of up to MaxStyleTokens *)
(* tokens: a text, opening, closing and self-closing style tags, and       *)
(* tables, table rows, table cells and other nodes with children.  The     *)
(* dict state of the code keeps its keys in the order they were put in and *)
(* is a sequence of tag names here; the todo stack takes the children of a *)
(* token before the tokens after it, which with one dict shared by both    *)
(* entries is the recursion of MarkFrom.                                   *)
(***************************************************************************)
MaxStyleTokens == 3

StyleTags ==
    {"abbr", "tt", "strike", "ins", "del", "small", "sup", "sub", "b", "strong",
     "cite", "i", "u", "em", "big", "font", "s", "var", "kbd"}

TableTypes == {"complex_table", "complex_table_row", "complex_table_cell"}

StyleToken(type, rawtagname, selfClosing, children) ==
    [type |-> type, rawtagname |-> rawtagname, tag_selfClosing |-> selfClosing,
     tagname |-> "", children |-> children]

\* the open tags of the outside carried into every token with children
ChildStateShared(type, state) == state

\* the children of a table, table row or table cell start with no open tag
ChildState(type, state) == IF type \in TableTypes THEN <<>> ELSE state

\* the nodes _create puts around children, the first tag of state innermost
RECURSIVE StyleWrapped(_, _)
StyleWrapped(children, state) ==
    IF state = <<>> THEN children
    ELSE StyleWrapped(<<[StyleToken("complex_tag", "", FALSE, children)
                            EXCEPT !.tagname = Head(state)]>>,
                      Tail(state))

\* whether _create returns True; i and start count from 1
Creates(i, start, state) == state # <<>> /\ i > start

\* the list after _create(tokens, i, start, state)
Create(toks, i, start, state) ==
    IF Creates(i, start, state)
    THEN SubSeq(toks, 1, start - 1)
             \o StyleWrapped(SubSeq(toks, start, i - 1), state)
             \o SubSeq(toks, i, Len(toks))
    ELSE toks

\* the keys of state
OpenTags(state) == {state[p] : p \in 1..Len(state)}

Without(state, tag) == SelectSeq(state, LAMBDA x : x # tag)

DeleteAt(toks, i) == SubSeq(toks, 1, i - 1) \o SubSeq(toks, i + 1, Len(toks))

\* the name _process_html_tag_end looks up: sup closes an open sub and sub
\* an open sup when the tag itself is not open
ClosedName(raw, state) ==
    IF raw \in OpenTags(state) THEN raw
    ELSE IF raw = "sup" THEN "sub"
    ELSE IF raw = "sub" THEN "sup"
    ELSE raw

\* one entry (i, state, tokens) of todo run to its end, with the entries it
\* puts on todo: the list as it is left and the state as it is left
RECURSIVE MarkFrom(_, _, _, _)
MarkFrom(toks, i, start, state) ==
    IF i > Len(toks) THEN [tokens |-> Create(toks, i, start, state), state |-> state]
    ELSE LET cur == toks[i]
             rest == DeleteAt(toks, i)
             made == Creates(i, start, state)
             at == IF made THEN start + 1 ELSE i
         IN IF cur.type = "html_tag" /\ cur.rawtagname \in StyleTags
            THEN IF cur.tag_selfClosing THEN MarkFrom(rest, i, start, state)
                 ELSE IF cur.rawtagname \in OpenTags(state)
                 THEN MarkFrom(Create(rest, i, start, state), at, at,
                               Without(state, cur.rawtagname))
                 ELSE MarkFrom(Create(rest, i, start, state), at, at,
                               Append(state, cur.rawtagname))
            ELSE IF cur.type = "html_tag_end" /\ cur.rawtagname \in StyleTags
            THEN IF ClosedName(cur.rawtagname, state) \in OpenTags(state)
                 THEN MarkFrom(Create(rest, i, start, state), at,
                               IF made THEN start + 1 ELSE start,
                               Without(state, ClosedName(cur.rawtagname, state)))
                 ELSE MarkFrom(rest, i, start, state)
            ELSE IF cur.children # <<>>
            THEN LET kids == MarkFrom(cur.children, 1, 1, ChildState(cur.type, state))
                     here == Create(Create(toks, i, start, state), at,
                                    IF made THEN start + 1 ELSE start, state)
                 IN MarkFrom([here EXCEPT ![at].children = kids.tokens], at + 1, at + 1,
                             IF cur.type \in TableTypes THEN state ELSE kids.state)
            ELSE MarkFrom(toks, i + 1, start, state)

\* todo = [(0, {}, tokens)]
mark_style_tags(toks) == MarkFrom(toks, 1, 1, <<>>).tokens

StyleText == StyleToken("text", "", FALSE, <<>>)

StyleLeaves ==
    {StyleText,
     StyleToken("html_tag", "b", FALSE, <<>>), StyleToken("html_tag_end", "b", FALSE, <<>>),
     StyleToken("html_tag", "sub", FALSE, <<>>), StyleToken("html_tag_end", "sup", FALSE, <<>>),
     StyleToken("html_tag", "b", TRUE, <<>>)}

StyleKids ==
    {<<StyleText>>,
     <<StyleToken("html_tag", "b", FALSE, <<>>)>>,
     <<StyleToken("html_tag_end", "b", FALSE, <<>>)>>,
     <<StyleToken("html_tag", "b", FALSE, <<>>), StyleText>>,
     <<StyleText, StyleToken("html_tag_end", "b", FALSE, <<>>)>>,
     <<StyleToken("html_tag", "sub", FALSE, <<>>), StyleText,
       StyleToken("html_tag_end", "sup", FALSE, <<>>)>>}

StyleNested ==
    {StyleToken("complex_table", "", FALSE,
                <<StyleToken("complex_table_row", "", FALSE,
                             <<StyleToken("complex_table_cell", "", FALSE, kids)>>)>>) :
        kids \in {<<StyleText>>, <<StyleToken("html_tag", "b", FALSE, <<>>), StyleText>>}}
    \cup {StyleToken("complex_node", "", FALSE,
                     <<StyleText, StyleToken("complex_table_cell", "", FALSE, <<StyleText>>),
                       StyleText>>),
          StyleToken("complex_table_cell", "", FALSE,
                     <<StyleToken("complex_node", "", FALSE,
                                  <<StyleToken("html_tag", "b", FALSE, <<>>)>>),
                       StyleText>>)}

StyleAlphabet ==
    StyleLeaves
    \cup {StyleToken(type, "", FALSE, kids) :
             type \in {"complex_table", "complex_table_cell", "complex_node"},
             kids \in StyleKids}
    \cup StyleNested

CallMarkStyleTags ==
    /\ fnpc = "call"
    /\ fnres' = mark_style_tags(fnarg)
    /\ fnpc' = "ret"
    /\ UNCHANGED <<fnarg, macroVars, pipeVars, cacheVars>>

InitStyle ==
    /\ fnarg \in UNION {[1..k -> StyleAlphabet] : k \in 0..MaxStyleTokens}
    /\ fnres = <<>> /\ fnpc = "call"
    /\ IdleMacro /\ IdlePipe /\ IdleCache

NextStyle == CallMarkStyleTags

SpecStyle == InitStyle /\ [][NextStyle]_vars

IsStyleTag(t) == t.type \in {"html_tag", "html_tag_end"} /\ t.rawtagname \in StyleTags

\* the tokens without children of a marked tree in document order, each with
\* the set of the style nodes it is inside of
RECURSIVE StylesAbove(_, _)
StylesAbove(toks, above) ==
    IF toks = <<>> THEN <<>>
    ELSE LET t == Head(toks)
         IN (IF t.type = "text" THEN <<[type |-> t.type, styles |-> above]>>
             ELSE IF t.type = "complex_tag"
             THEN StylesAbove(t.children, above \cup {t.tagname})
             ELSE StylesAbove(t.children, above))
            \o StylesAbove(Tail(toks), above)

\* the set open after a style tag t when open was open before it
OpenAfter(t, open) ==
    IF t.tag_selfClosing THEN open
    ELSE IF t.type = "html_tag"
    THEN IF t.rawtagname \in open THEN open \ {t.rawtagname} ELSE open \cup {t.rawtagname}
    ELSE IF t.rawtagname \in open THEN open \ {t.rawtagname}
    ELSE IF t.rawtagname = "sup" THEN open \ {"sub"}
    ELSE IF t.rawtagname = "sub" THEN open \ {"sup"}
    ELSE open

\* the text tokens of the given tree in document order, each with the set of
\* tags open at its place: empty on
\* entry to the children of a table, row or cell and as before after it,
\* carried into and out of the children of any other token
RECURSIVE OpenAt(_, _)
OpenAt(toks, open) ==
    IF toks = <<>> THEN [leaves |-> <<>>, open |-> open]
    ELSE LET t == Head(toks)
         IN IF IsStyleTag(t)
            THEN OpenAt(Tail(toks), OpenAfter(t, open))
            ELSE IF t.type = "text"
            THEN LET r == OpenAt(Tail(toks), open)
                 IN [r EXCEPT !.leaves = <<[type |-> t.type, styles |-> open]>> \o @]
            ELSE LET kids == OpenAt(t.children, IF t.type \in TableTypes THEN {} ELSE open)
                     r == OpenAt(Tail(toks), IF t.type \in TableTypes THEN open ELSE kids.open)
                 IN [r EXCEPT !.leaves = kids.leaves \o @]

RECURSIVE StyleTagLeft(_)
StyleTagLeft(toks) ==
    \E p \in 1..Len(toks) : IsStyleTag(toks[p]) \/ StyleTagLeft(toks[p].children)

\* C29: in mark_style_tags no style tag is open on entry to the children of
\* a table, table row or table cell and the tags open before it are open
\* again after it, while any other token with children hands its open tags
\* to its children and takes theirs back: every text is inside the style
\* nodes of exactly the tags open at its place, and no opening or closing
\* style tag is left in the tree.
C29_TablesIsolated ==
    fnpc = "ret" =>
        /\ StylesAbove(fnres, {}) = OpenAt(fnarg, {}).leaves
        /\ ~StyleTagLeft(fnres)

\* a tag opened before a table, a cell that opens one of its own, and a text
\* after the table that is inside the outer tag only
C29_Witness ==
    /\ fnpc = "ret"
    /\ Len(fnarg) = 3
    /\ fnarg[1] = StyleToken("html_tag", "sub", FALSE, <<>>)
    /\ fnarg[2].type = "complex_table"
    /\ Len(fnarg[2].children) = 1
    /\ fnarg[2].children[1].type = "complex_table_row"
    /\ Len(fnarg[2].children[1].children[1].children) = 2
    /\ fnarg[3] = StyleText
    /\ StylesAbove(fnres, {}) =
           <<[type |-> "text", styles |-> {"b"}], [type |-> "text", styles |-> {"sub"}]>>

(***************************************************************************)
(* The older section pass, parse_sections (src/mwlib/refine/core.py        *)
(* 102-156), beside ParseSections.  Its list sections can hold sections    *)
(* that are not inside one another, so every entry keeps its level and the *)
(* path of positions that leads from tokens to it.  The state of run is    *)
(* [tokens, i, start, endtitle, sections, raised]; start and endtitle are  *)
(* 0 for None.  The list refined only collects the nodes for later passes  *)
(* and is left out.                                                        *)
(***************************************************************************)
\* T(type=T.t_complex_section, children=sub, level=level)
OldSectionToken(level, children) ==
    [NewToken("complex_section", <<>>, <<>>, children) EXCEPT !.level = level]

\* while sections and level<sections[-1].level: sections.pop()
RECURSIVE OldPopLevels(_, _)
OldPopLevels(sections, level) ==
    IF sections # <<>> /\ level < sections[Len(sections)].level
    THEN OldPopLevels(SubSeq(sections, 1, Len(sections) - 1), level)
    ELSE sections

\* children.append(sect) at the token the path leads to
RECURSIVE AppendAt(_, _, _)
AppendAt(toks, path, sect) ==
    IF Len(path) = 1
    THEN [toks EXCEPT ![path[1]].children = Append(@, sect)]
    ELSE [toks EXCEPT ![path[1]].children = AppendAt(@, Tail(path), sect)]

\* the children of the token the path leads to
RECURSIVE ChildrenAt(_, _)
ChildrenAt(toks, path) ==
    IF Len(path) = 1 THEN toks[path[1]].children
    ELSE ChildrenAt(toks[path[1]].children, Tail(path))

\* create(), called with current.start set
OldSectionCreate(st) ==
    LET toks == st.tokens
        level == Min({Count(toks[st.start].text, "="), Count(toks[st.endtitle].text, "=")})
        caption == NewToken("complex_caption", <<>>, <<>>,
                            SubSeq(toks, st.start + 1, st.endtitle - 1))
        sect == OldSectionToken(level, <<caption>> \o SubSeq(toks, st.endtitle + 1, st.i - 1))
        sections == OldPopLevels(st.sections, level)
        placed == Splice(toks, st.start, st.i, sect)
        removed == SubSeq(placed, 1, st.start - 1) \o SubSeq(placed, st.start + 1, Len(placed))
    IN IF sections # <<>> /\ level > sections[Len(sections)].level
       THEN LET parent == sections[Len(sections)].path
            IN [st EXCEPT !.tokens = AppendAt(removed, parent, sect),
                          !.start = st.start - 1,
                          !.sections = Append(sections,
                              [level |-> level,
                               path |-> Append(parent, Len(ChildrenAt(removed, parent)) + 1)])]
       ELSE [st EXCEPT !.tokens = placed,
                       !.sections = Append(sections, [level |-> level, path |-> <<st.start>>])]

\* the loop of run from i on, and the create() after it; tokens[None] raises
RECURSIVE OldSectionsRun(_)
OldSectionsRun(st) ==
    IF st.i > Len(st.tokens)
    THEN IF st.endtitle = 0 THEN st
         ELSE IF st.start = 0 THEN [st EXCEPT !.raised = TRUE]
         ELSE OldSectionCreate(st)
    ELSE IF st.tokens[st.i].type = "section"
    THEN IF st.endtitle # 0
         THEN IF st.start = 0 THEN [st EXCEPT !.raised = TRUE]
              ELSE LET made == OldSectionCreate(st)
                   IN OldSectionsRun([made EXCEPT !.i = made.start + 1,
                                                  !.start = 0, !.endtitle = 0])
         ELSE OldSectionsRun([st EXCEPT !.start = st.i, !.i = st.i + 1])
    ELSE IF st.tokens[st.i].type = "endsection"
    THEN OldSectionsRun([st EXCEPT !.endtitle = st.i, !.i = st.i + 1])
    ELSE OldSectionsRun([st EXCEPT !.i = st.i + 1])

parse_sections(toks) ==
    LET st == OldSectionsRun([tokens |-> toks, i |-> 1, start |-> 0, endtitle |-> 0,
                              sections |-> <<>>, raised |-> FALSE])
    IN [tokens |-> st.tokens, raised |-> st.raised]

\* both passes on the same list
CallBothSections ==
    /\ fnpc = "call"
    /\ fnres' = [older |-> parse_sections(fnarg), newer |-> ParseSections(fnarg)]
    /\ fnpc' = "ret"
    /\ UNCHANGED <<fnarg, macroVars, pipeVars, cacheVars>>

InitBothSections ==
    /\ fnarg \in HeadingLists(MaxHeadings)
    /\ fnres = Tuple(<<>>) /\ fnpc = "call"
    /\ IdleMacro /\ IdlePipe /\ IdleCache

NextBothSections == CallBothSections

SpecBothSections == InitBothSections /\ [][NextBothSections]_vars

\* the sections of a tree in document order, each with its level and the
\* number in that order of the section it is a child of, 0 at top level
RECURSIVE NestingFrom(_, _, _)
NestingFrom(toks, parent, found) ==
    IF toks = <<>> THEN found
    ELSE NestingFrom(Tail(toks), parent,
             IF Head(toks).type = "complex_section"
             THEN NestingFrom(Head(toks).children, Len(found) + 1,
                              Append(found, [level |-> Head(toks).level, parent |-> parent]))
             ELSE found)

Nesting(toks) == NestingFrom(toks, 0, <<>>)

\* C30: for every list of headings whose markers alternate properly and have
\* the same length at both ends, parse_sections and ParseSections give each
\* section the same level and the same parent section or both leave it at
\* top level, also when headings that follow each other have equal levels.
C30_SameNesting ==
    fnpc = "ret" =>
        /\ ~fnres.older.raised
        /\ Nesting(fnres.older.tokens) = Nesting(fnres.newer)

====
